# A model of the threads of embedded WAMR, and of the firmware around it

The repository is an ESP-IDF firmware (`main/`, `application/`) that runs a
WebAssembly file out of a flash partition with a vendored WebAssembly Micro
Runtime (`components/wamr`). This directory holds TLA+ modules for the parts
whose correctness depends on order (threads, locks, waiting, resets) or on long
sequences of calls (heap, descriptors, the code the loader emits), the TLC
configurations that check them, and TLAPS proofs about them.

Paths below are relative to `src/`; `core/` stands for
`components/wamr/core/`. What is built is decided by `sdkconfig` (2047-2066):
the fast interpreter, AOT, libc-builtin, WASI and lib-pthread, which brings in
the thread manager and shared memory.

## Inventory

| part | state it keeps | operations | interacts with | hard behaviour, and what makes it correct |
|---|---|---|---|---|
| firmware runner `main/wasm_runner.c` | file buffer, its guessed size, handles of module and instance | read the partition, init, load, instantiate, run, release | partition, runtime | resets, partial files, failing calls: a file that is in the flash, fits and does not end with 0xFF is loaded whole; everything is released, in order |
| `application/build.sh`, `partitions.csv` | content of the partition `wasm_bin` | build, write, read back | runner, through the flash | writing may stop; an older file lies behind the new one; the copy that is compared may be an old one |
| native registry `main/function_registry.c` | one static table | register once | runtime | none: no state afterwards |
| thread manager `core/iwasm/libraries/thread-mgr/thread_manager.c`, `core/iwasm/common/wasm_exec_env.c` | list of clusters; per cluster the list of exec_envs, aux stacks, `has_exception`, `processing`; per exec_env its handle, flags, wait count; four kinds of lock | create, join, detach, cancel, exit, spread an exception, wait for all, destroy; suspend and resume | interpreter (suspend flags), lib-pthread, platform threads | every interleaving of these: no use after free, one release of each native thread and stack, no deadlock, cancellation and exceptions reach and end every thread |
| lib-pthread `core/iwasm/libraries/lib-pthread/lib_pthread_wrapper.c` | per cluster a map of info nodes and the keys; per thread status and result | pthread_* of the application | thread manager, hash map | info nodes are used after their lock is released; a join gets the result of its thread; values are destroyed once |
| atomic wait `core/iwasm/common/wasm_shared_memory.c` | map from address to list of waiting nodes | wait, notify | interpreter, thread manager (termination) | lost wakeups, a notify racing a timeout, the last waiter releasing what others point to |
| mutexes of applications `core/iwasm/libraries/lib-wasi-threads/test/sync_primitives.h`, test `atomic_wait_notify.c` | one word of shared memory | lock, unlock | atomic wait | nobody sleeps on a free mutex |
| shared and linear memory `core/iwasm/common/wasm_memory.c`, `wasm_shared_memory.c` | data, size, reference count | enlarge, share, release | interpreter, instantiation | the last user releases it; growth beside accesses |
| application heap `core/shared/mem-alloc/ems` | chunks with their use bits and footers, free lists, a tree | alloc, realloc, free, migrate | libc-builtin, `memory.grow` | after any sequence chunks tile the heap, each free one is found in one place, and what fits is served |
| WASI descriptors `core/iwasm/libraries/libc-wasi` | table of reference-counted objects, names of preopened directories | open, close, renumber, use, set rights | application threads | close and renumber beside use: a file is closed once, after its last use; rights are not regained |
| loader and fast interpreter `core/iwasm/interpreter/wasm_loader.c`, `wasm_interp_fast.c` | operand slots, control blocks, preserved locals; at run time the frame | compile an operation, branch | | the frame holds what the operand stack would, whichever way a block ends |
| utilities `core/shared/utils` | list, hash map, vector, queue, timers | | all of the above | limits, timers that expire while they are removed |
| AOT, instantiation, sections and types of a module | | | | sequential; the interpreter meets other threads at its suspend checks, atomics and calls only |
| platform layer `core/shared/platform/esp-idf` | | threads, mutexes, conditions | ESP-IDF | taken as what POSIX says they do |

`PROJECT.json` lists each part under `components`, the ones that are not
modelled with the reason, and under `hazards` what is hard to test, line by
line; a hazard no property of a run covers has a note.

## Modules

| module | role |
|---|---|
| `ThreadManager` | one cluster with its threads and locks |
| `ThreadManagerProofs` | theorems about it |
| `MCThreadManager` | its instances: what the wasm code of each thread may do |
| `LibPthread`, `LibPthreadProofs`, `MCLibPthread` | handles and info nodes of lib-pthread, theorems, instances |
| `PthreadKeys`, `PthreadKeysProofs`, `MCPthreadKeys` | its keys and thread-specific values, theorems, instances |
| `WaitQueue` | abstract: what wait and notify promise |
| `AtomicWait`, `MCAtomicWait` | `wasm_shared_memory.c`, which implements `WaitQueue`; an instance |
| `WaitMutex`, `MCWaitMutex` | the applications' mutex, a client of `AtomicWait`; instance |
| `AtomicWaitProofs` | theorems about both, the refinement included |
| `Allocator` | abstract: what a heap promises |
| `EmsHeap`, `EmsHeapProofs`, `MCEmsHeap` | `ems_alloc.c` and `gc_migrate`, which implement `Allocator`; theorems, the refinement included; instances |
| `FdTable`, `FdTableProofs`, `MCFdTable` | WASI descriptors, theorems, instances |
| `FastInterp`, `FastInterpProofs`, `MCFastInterp` | the loader's translation beside a stack machine, theorems, instances |
| `WasmPartition` | the flash partition and `build.sh` |
| `WasmRunner`, `WasmRunnerProofs`, `MCWasmRunner` | the firmware, over `WasmPartition`; theorems, instance: files, sizes |

### ThreadManager

A native thread runs one exec_env. `pc[t]` says where thread `t` is, and a step
is one critical section: from the acquisition of a lock, a condition wait or a
native join to the next one. A thread that takes a second lock while it holds
one has a step for each, so deadlocks are visible. Locks are variables that
name their holder: `cluster_list_lock`, `cluster_lock`, `wait_lock[e]`.
`exception_lock` is held around one store and is part of its step.

Addresses of exec_envs are reused the way `malloc` reuses them (`alloc` says
which are in use), and the client keeps the address of a thread that has ended:
join, detach and cancel may be called with it. `res[u]` is what the platform
knows of the native thread `u`; a detach or join that comes too late makes it
`"invalid"`. The aux stacks are the segments `1 .. MaxThreadNum`.

What a thread's wasm code does is free, within `May[t]`: create, join threads it
has created, detach and cancel any thread, trap, clear an exception, return.
Joins follow creation because an application in which threads join each other
in a circle stops by its own fault.

The code's list is ordered and walked from its head; here it is a set and a walk
visits its members in any order. The handshake of creator and created thread on
the handle, over the creator's `wait_lock`, is `StartRoutine` and `CreateReturns`;
the one on the info node is in `LibPthread`. The creator's `os_cond_wait` has no loop around
it: the signal of its thread is taken to be all that ends it. The memory that both
allocate is left out.

`wasm_cluster_cancel_thread` reads `exec_env->cluster` before it looks the exec_env
up. When the exec_env is freed by then, this is a read of freed memory, and what
the call does with it is not followed (`CancelFreed`, which returns); instance `MCCancel` shows
that it happens. Every other use of an exec_env follows a look-up under a
lock, and that these are alive is `FoundIsAlive`.

Left out: `wasm_cluster_spawn_exec_env` and `destroy_spawned_exec_env`, which
embedders call from threads of their own; `terminate_all`, which has no caller;
suspend and resume, which only the debugger uses; spreading of custom data and
contexts, which changes nothing here.

### AtomicWait, WaitQueue, WaitMutex

`g_shared_memory_lock` is held from the comparison of the value to the condition
wait and again from there to the return, so an operation is one or two steps
(`WaitBlocks`, `WaitReturns`) with a step for each slice of one second the code
waits in (`WaitSlice`). `wait_map` has an entry for an address exactly when the
code has an `AtomicWaitInfo`, and the list in the order of the code: a new
waiter at the head. Atomic stores and the compare-and-swap take the same lock.
Termination comes from outside (`Terminate`); that an exception is spread to the
whole cluster is one step here, and `ThreadManager` has its steps.

`WaitQueue` has sets instead of lists, nodes and maps: `waiting[a]`,
`notified[a]`. `call` has the operation a thread is in with its operands, so a step
that blocks names the value it compared and a step that notifies the count it was
given. The refinement mapping takes them from `pc` and `op` (`Calls`), and the
blocked threads whose node is `S_WAITING` and `S_NOTIFIED`. One thing the abstract `Notify` has to allow
because of the code: a thread that is notified stays in the list until it runs,
and `notify_wait_list` counts it again, so a second notify may wake nobody
although others wait. `WaitMutex` shows that the mutex built on it survives
that: whoever is counted twice tries the lock and later notifies again.

A notify or wait out of bounds returns -1 with an exception; the wait has it in
`WaitFails`, which differs from it in no variable. The lock is released there, and the
exception follows without it (`WaitRaises`): others may wait and notify between the two.

Every step of `WaitMutex` is one of `AtomicWait` (theorem `MutexIsClient`), so its
run checks `NodesListed` and the refinement as well, with the operations a
mutex makes; for any operation of wasm code they are proved.

### LibPthread

The info node of a thread is a record per worker (`nodeEnv`, `status`, `joinable`,
`ret`), in the map or not (`mapped`), with a count of how often it was freed. The
code looks a node up under the lock of the map and uses it after that lock is
gone, so every use is a step of its own (`Lookup`, then `JoinReadsStatus`,
`DetachFlag`, `CancelStatus`, `JoinStored`), and a read of a freed node gives any
value the field can have (`Read`). The creator and its thread meet over the
creator's `wait_lock` and `wait_cond` (`Create`, `CreateWaits`, `Start`,
`CreateReturns`). The calls into the thread manager are single steps here
(`JoinThread`, `DetachThread`, `Leave`); `ThreadManager` has theirs. The
application joins or detaches a thread at most once (`claimed`), as POSIX asks
of it; cancel is free. The assertion of join that a stored node is joinable is empty
in this build, so `JoinStored` goes on without it; it does not always hold
(`MCPthreadAssert`).

### PthreadKeys

The nodes of one cluster's `bh_list`, linked by `head` and `next`, with its `len`;
each has a thread's value of every key. `key_data_list_lock` is a variable. What
`bh_list_insert` and `bh_list_remove` do to `head`, `next` and `len` is a step
each, with the old length in `op`, because the removal at the end of a thread
takes no lock. A destructor is a wasm function: while it runs (`pc = "app"`,
`at` is the key the loop is at) the thread may use keys, set values and end.
Values a thread sets are numbered, so that each can be followed to its
destructor (`given`). With `Alone` the threads take turns, as an application can
arrange by passing a token and joining what ends; the run `keys` is about those.

### EmsHeap, Allocator

A chunk is a record at its address: use bit of the previous chunk, size, type,
the link of a free one and the last word of one in use. What the code reads
through a pointer is read there too: the size before a chunk whose predecessor is
free comes from its last four bytes (`Footer`), which in a chunk of eight bytes
are those of the link. Lists are followed by their offsets, the tree by its
pointers, and the removal of a tree node is that of the code, relinking
included. `gc_size_t` has a width (`Width`), so a size that wraps does. `heap->lock`
makes malloc and free one step; a realloc that moves gives the lock back between
copy and free (`leaving`). `Migrate` moves chunks and tree, and not the heads
of the lists, as `gc_migrate` does.

The checks that set `is_heap_corrupted` are in the model. Those of the lists look at what the code
looks at. Those of the tree, in removal, insertion and search, are one predicate of the whole tree
(`TreeBroken`), which every one of them evaluates: a pointer that leads out of
the heap, or a node that is no child of its parent, is reported at the next use of the tree, no later
than the code would. `WalkFails` is the check of the walk of `gc_migrate`. Checks of alignment
cannot fail in units of eight bytes.

`Allocator` has the live objects only: an object is put anywhere it shares no
byte with another. The refinement mapping takes offsets and the sizes asked
for from `app`.

### FdTable

`entry` maps open descriptors to object and rights; `refs` counts; `held` has the
references of the operation each thread is in, for the code releases `ft->lock`
before it uses a file, and takes two objects in a rename or link. `stray` counts
the references that nobody has any more: `path_link` and `path_symlink` return `EBADF`
without `path_put` (`PathNotValid`), and `fd_table_insert` returns without
`fd_object_release` when it gets no random number (`InsertStrands`). An operation
is the step under the lock, its use outside it and the release. `prestat` has the
names of preopened directories, with their own lock. Opening a path takes the
directory, makes an object and inserts it, in three steps (`PathGet`,
`PathPut`, `Insert`); the descriptor is any free one, as the code draws it at
random. Growth is that of the code, with the width of `size_t`; a size of `2^Width` stands
for one that wraps, for which `fd_table_grow` gets no memory or, with all but two numbers in use, does
not return. The initial descriptors
are inserted by `wasm_runtime_init_wasi` (`Start`), in order, before any thread
runs. A failing `assert` resets the chip, and everything starts anew; so does a
renumber of a descriptor to itself, which reads the object of the entry it has just
cleared (`Restarts`). `Destroy` may come while a detached thread is in an operation; what that
thread does to the freed table then is left out.

### FastInterp

The loader turns stack code into code for a frame of slots and keeps, for each
operand, the slot it is in: a local, a constant, a slot of its own (dynamic) or
one of the preserved locals. An action compiles one operation, with the stack
`offset`, the control blocks `csp` and the next slots of the code, and executes
what it emitted in `mach`, where a stack machine runs beside the frame. A
branch goes forward, so after one is taken the code is compiled and not executed
until its target comes; a branch back to a loop ends the behaviour, and a loop
begins in any iteration (`LoopOp` gives locals any value). Values are opaque.
The functions that the model walks are therefore all programs over its operations
within the bounds. What bounds a program is the frame that the first traversal
has found for it (`Compiles`): every dynamic offset, the slot for the result of each
open block included, is below `MaxDynamic`, which the first traversal has seen
because it passes the end of every block. A constant that finds no place in the
table of constants is emitted into a dynamic slot (`I32ConstEmitted`).

### WasmPartition, WasmRunner

Flash cells are erased and written by sector, and stay what they were behind the
last sector of the file. `build.sh` may stop between sectors, and a sector may fail
to be written. The file is read back into `copy` and compared; nobody looks at whether the reading
worked, and `copy` goes away only when it is equal, so the comparison can be with
what an earlier run has left. The chip may be reset at any time, and
is when the tool talks to it; it may boot from what an interrupted run has left.
`iwasm_main` is sequential: an action per call, with its success and its failure.
`held` is the set of things it has to release. `size_t` has its width
(`SizeMax`), for the loop over the last ten bytes.

## Runs

States are distinct states; each run takes less than five minutes on two workers.

| run | config | properties | states |
|---|---|---|---|
| threads | MCThreads | TypeOK, FoundIsAlive, ListedHandleIsSet, NativeReleasedOnce, SegmentsAccounted, no deadlock | 441 K |
| process | MCProcess | LockingInv, ExceptionReachesAll, MainIsLast | 3.7 M |
| ends | MCEnd | TerminatedEnds, ExceptionEndsProcess, no deadlock | 208 K |
| pthread | MCPthread | NodesFreedOnce, HandleResolved, JoinMeansOver, StoredIsResult, CreateEnds, JoinEnds | 198 K |
| keys | MCKeys | ListMatches, DestroyedOnce | 1.3 M |
| wait_mutex | MCWaitMutex | NodesListed, QueueSpec, NoLostWakeup, SomeoneLocks, WaitEnds | 779 K |
| heap | MCHeap | ChunksTile, FreeChunksListed, TreeOrdered, ServesWhatFits, NotCorrupted, AllocatorSpec | 280 K |
| fd | MCFd | RefcountExact, NoUseAfterClose, PrestatFollows, RightsNeverReturn | 2.9 M |
| fast | MCFast | SlotsReserved, BlocksKeepLocals, Represents | 983 K |
| runner | MCWasmRunner | TypeOK, FileIsLoaded, ReleasedInOrder, DumpInBuffer, no deadlock | 473 K |
| heap_rest | MCHeapRest | ChunksTile is violated | |
| fast_br | MCFastBr | SlotsReserved is violated | |

What the runs of `ThreadManager` differ in is what the wasm code may do
(`MCThreadManager`): `threads` has every operation but traps, clears and the
return of main, so that detached threads may run on; `process` is the whole life
of a process: three workers share two exec_envs, create each other, trap and end
while main joins them, clears exceptions and at last walks the list, and none
detaches; `ends` has threads that never return by themselves.

Every property of a passing run has a mutant in `PROJECT.json`: a definition of
the model changed the way a bug would change the code, which violates it. The
mutated forms stand in the modules beside what they change, marked as such.

### Bounds, and why they are enough

* Threads: main and two workers, each created at most once; three in `process`.
  Two workers and main are every role there is: one that ends, one that joins,
  detaches or cancels it, and one that creates or raises. Addresses: two beside
  that of main; with three workers an address is reused, which is what could
  mislead the walk. `MaxThreadNum` is as large as the workers in all runs;
  `CreateFails` stands for a full list as well.
* lib-pthread: main and two workers, who may create, join, detach and cancel each
  other; one result, which a read of a freed node may miss. A third worker would
  add no role: a node has its thread, one that joins or detaches it, and those that cancel.
* Keys: two keys, two values per thread, two workers: the list has nodes before
  and behind the one that is removed, a destructor sets the key it has passed and the
  one it has not.
* Mutex: three threads at one address: one that was notified and has not left the list, one
  asleep behind it, and one that locks and unlocks twice, whose second notify is
  spent on the first. A timeout of two slices: one in which the loop goes on, and the last.
  `MCAtomicWait` is an instance for other operations: two values, counts below
  and at the number of waiters, a timeout of zero (493 K states, no error).
* Heap: 18 units of eight bytes, in one of two places; lists for sizes below five
  (the code has 32 of them), so chunks of every list and of the tree occur and
  five objects leave four gaps. Requests of two and of four units, and one that
  wraps in a `gc_size_t` of eight bits. No request leaves a rest of eight
  bytes, and the memory grows while the lists are empty: what happens otherwise
  is shown below. The last word of an object is 0 in the run;
  what other words can do is shown below.
* Descriptors: two threads, two objects, two preopened directories, four entries, a `size_t`
  of four bits: the table doubles and is full, every operation meets the close or
  renumber of what it uses, and a name can end up beside another directory.
  Standard streams are in instances `MCFdRenumber` and `MCFdLeak` only: they differ from files in nothing
  but the order at the start. One reference to an object may be lost at a time (`MaxStray`).
* Loader: one local, two operands, three nested blocks, of which one may have become
  unreachable (`MaxPolymorphic`), three dynamic slots, one preserved local; programs of any length.
  Loops have no result: their results are what falls out of their end, as with a block.
  `br_out`, the branch that `fast_br` is about, is in that instance only.
* Partition: four sectors of two cells, a buffer of three sectors, magic of two
  cells, a dump of three; files of one to seven cells, some that end with erased
  cells, two that are no wasm files, one that exceeds the buffer.

Symmetry is used for safety properties only: over the workers, which `May` treats
alike, over the addresses other than main's, over threads, objects and values.

### Fairness

`Fairness` of `ThreadManager` is strong fairness of what the runtime does for a
thread: FreeRTOS gives a mutex to its waiters in turn, so a thread that asks for
a lock which is free again and again gets it. What the wasm code decides (`App`)
has none: a thread may run in a loop for ever, and properties hold because its
branches check the flags. `FairSpec` of `LibPthread` is weak fairness of what the
library does for a thread and of its start and end: native threads are scheduled,
and a thread that has been signalled runs. `FairSpec` of `AtomicWait` is weak as
well: a thread that can go on in a wait does, for a condition wait ends when it
is signalled or its slice is over. `FairMutexSpec` adds that a thread that has
begun to lock or holds the mutex goes on; the client code has no choice there.

Deadlock is checked in the runs `threads`, `ends` and `runner`. `process` may stop
in the deadlock that instance `MCTrap` shows. In the other models the end of
the process, or a program whose last block is closed, has no successor.

## What disagrees with its comments

Two runs expect a violation; both were also seen in the compiled code.

* `heap_rest`: a realloc that grows in place can leave a rest of eight bytes.
  `gci_add_fc` puts it into a list as a free chunk, but such a chunk has its link
  where its size has to stand for the merge of the chunk behind it: freeing that
  one merges with what is no chunk, and the heap then hands out memory that is
  in use. `alloc_hmu` never leaves less than 16 bytes; realloc in place does.
* `fast_br`: a `br` that carries a result, inside a block without one, leaves
  `dynamic_offset` at the slot after its target, and the end of that block does not put it back:
  the next operand can get the slot of one that is still on the stack. A function
  of this form computes 4400 in the fast interpreter and 3111 in the classic one.

Further instances are not among the runs; each one ends in a violation
(`tlc -config <cfg> <module>`):

* `MCCancel` (`MCThreadManager`), NoUseAfterFree: a cancel that comes after its thread has
  ended reads `exec_env->cluster` of an exec_env that has been freed, before it looks
  whether the exec_env is in a cluster (`thread_manager.c:1127`, `:1132`);
  `pthread_cancel_wrapper` passes it one whenever the node of the thread is still there.
* `MCTrap` (`MCThreadManager`), ExceptionTerminates: a trap walks the list with
  `cluster->lock` and takes each exec_env's `wait_lock`; `pthread_create` holds its
  own `wait_lock` and then asks for `cluster->lock`. The two threads wait for each
  other, and nobody is terminated.
* `MCDetach` (`MCThreadManager`), MainIsLast: main does not wait for detached
  threads, although `wasm_exec_env_destroy` removes the exec_env without a lock
  because "this is the only alive thread".
* `MCClear` (`MCThreadManager`), ClearIsLocal: the failing join, which clears the
  exception so as not to disturb other threads, takes back the termination of
  every thread.
* `MCPthreadJoin` (`MCLibPthread`), JoinGetsResult: join reads the status of the
  node before it joins; a thread that stores its result and ends in between is
  not found in the cluster any more and the result is lost.
* `MCPthreadAssert` (`MCLibPthread`), StoredIsJoinable: join asserts that a node with a stored
  result is joinable. A cancel that comes after the thread has read the flag, and before
  join reads the status, has cleared it. Without `BH_DEBUG` nothing looks at it.
* `MCKeysRace` (`MCPthreadKeys`), OneNodeLeft: a thread that ends removes its node
  without `key_data_list_lock`, so a `len--` or a `len++` is lost, and "There should
  be only one node for main thread" fails.
* `MCKeysDeleted` (`MCPthreadKeys`), DeletedKeysEmpty: the values of a deleted key
  stay, and a key that is created again has them; POSIX promises NULL.
* `MCFdRenumber` (`MCFdTable`), DetachAsserts: renumber counts a descriptor down
  twice, so `used` can be 0 with descriptors open, where the next detach fails
  its assertion.
* `MCFdLeak` (`MCFdTable`), LastUserCloses: the references that `path_link`, `path_symlink`
  and `fd_table_insert` lose keep a file open that no descriptor and no
  operation has.
* `MCHeapMigrate` (`MCEmsHeap`), NotCorrupted: the memory grows while a list has a
  chunk; the next allocation from it reports the heap as corrupted.
* `MCHeapWords` (`MCEmsHeap`), ChunksTile: a realloc that grows in place and takes
  all of the next chunk does not tell the chunk after it that the one before is in
  use now, as `alloc_hmu` does and as "P in use bit means the previous chunk is in
  use" (`ems_gc_internal.h:133`) asks. When that chunk is freed, the last word of
  the object that has grown is read as the size of a free chunk; if it is the
  distance to one, all that lies between is merged, objects in use included. An
  object whose last word is 0, or no distance within the heap, does no harm. This
  was seen in the compiled code too.
* `MCFileSize` (`MCWasmRunner`), SizeIsActual: the size the runner detects is not
  that of the file when a longer file was in the partition before.
* `MCFileCut` (`MCWasmRunner`), VerifiedFileIsLoaded: a file whose last byte is 0xFF
  loses it, though "Flash verification successful!" was said of it: the runner takes what ends
  the file for erased flash.
* `MCOldCopy` (`MCWasmRunner`), VerifiedIsInFlash: a file is compared with the copy of an earlier
  run, of the same file, and found to be in a flash where writing it has failed.

One more came out of the proofs, from the hypothesis `Locals # 0` that they could not
do without. In a function with neither parameters nor locals the first dynamic slot
is 0, and 0 is also the offset that `check_block_stack` pushes in place of the
missing result of unreachable code (`Dummies`). In the outermost part of such a
function, the end of an unreachable block with a result compares the two
(`Moves`), finds the result in its place and leaves `dynamic_offset` at 0, so that
the next operand gets the slot into which a `br_if` has put the result.
`SlotsReserved` is violated by `MCFast` with `Locals = 0`, `FuncResults = 0` and
`MaxDynamic = 2`.

## Proofs

`tlapm` checks eight modules. Assumptions are those the modules state for their
constants: any number of threads, addresses, stacks, objects, chunks, descriptors, keys,
counts, timeouts, locals, blocks, slots, flash and file sizes. Where a theorem has
a hypothesis of its own it is named below.

### ThreadManagerProofs

* `TypeCorrect`: `TypeOK`. It is not inductive alone: that an
  operation works on an exec_env (`OperandType`) has to go with it.
* `LockingCorrect`: `LockingInv`, the inductive invariant of the locking protocol.
  Locks are held at exactly the places of `ListHolders` and `ClusterHolders`
  (`LocksMatch`); running threads have exec_envs of their own, which are the
  listed ones (`EnvsMatch`); a thread that starts has a creator that waits for it
  with `cluster->lock` held (`CreatorWaits`); what was found under a lock is in the
  list while the lock is held (`OperandsListed`). The last is why the others are
  needed: only `ExitCluster` removes an exec_env, it takes both locks, and by
  `LocksMatch` nobody then relies on the list. One lemma per group of actions;
  `QuietStep` and `OutsideStep` deal with the many that touch none of it. The
  invariant ends when main has destroyed the cluster, without a lock; after that
  `MainIsLastCorrect` says who else there is.
* `FoundIsAliveCorrect`, `ListedHandleIsSetCorrect` follow from it. The first says of every use of
  an exec_env that follows a look-up that it is alive; the read that cancel makes before
  its look-up is not among them (`MCCancel`).
* `SegmentsAccountedCorrect`: with it goes who may own a segment where
  (`SegmentsHeld`): a thread that has not started owns none, and only a creator
  between allocation and start has one pending.
* `ExceptionReachesAllCorrect`: during a walk, what has not been visited is in
  `todo`, and no exec_env is added, for the walker holds `cluster->lock` (`WalkedTo`).
* `NativeReleasedOnceCorrect`, until main has destroyed the cluster: a thread nobody
  has counted itself for or detached is joinable (`Unclaimed`), so its own exit or
  a detach releases it; one that is claimed and still joinable has a joiner on its
  way (`JoinerComes`); and a joiner that counts itself finds the handle set
  (`JoinsStarted`), because a creation holds `cluster->lock` and a found exec_env
  stays in the list.
* `MainIsLastCorrect`, if no thread detaches another (with a detach it is false:
  `MCDetach`). The walk of `wasm_cluster_wait_for_all_except_self` passes over a thread
  that somebody else has joined, so that it ends needs an argument about chains
  of joins. `LastBody` has what is true while main walks: those it has been at are
  joined (`WalkMatches`), who is joined and runs has somebody in the join
  (`JoinersWait`), and threads can be given ages such that whoever joins is older
  than the one it joins (`Aged`), for it joins by the exec_env of a thread that it
  has created, and an exec_env that is reused belongs to somebody younger still. If
  a thread were left when the walk ends, the oldest of these would be joined by
  a thread that runs and is older, which only main is; and main is in the walk
  (`WalkEndsLast`). Addresses are reused, so "older" is no function of them.
* `NativeReleasedOnceWhole`, under the same hypothesis: `NativeReleasedOnce` after the
  end of the cluster too, because no thread is then left that has anything to
  release (`Settled`).

### LibPthreadProofs

`IInv` has the types and, besides the properties, where each node is
(`NodesAccounted`: in the map from the start of its thread until it is freed, which
is when the thread leaves or with the map), that a creator waits while its thread has not filed its node (`ParentsWait`), that
what was looked up has been filed (`Resolved`), that one join or detach at most
works on a thread (`ClaimedOnce`), and what a stored result is (`Stored`).
`NodesFreedOnceCorrect`, `HandleResolvedCorrect`, `JoinMeansOverCorrect` and
`StoredIsResultCorrect` follow.

### PthreadKeysProofs

`KeysInv` has the types, where the loop over the keys can be (`LoopAt`) and, stronger than the
property, `KeptOnce`: a value that a thread keeps, or that waits in an insertion
for its place, was given to no destructor and is in one place. The loop resets a
place before it calls the destructor, so whatever the destructor does then,
new values and the end of the thread included, the value is not found again:
`DestroyedOnceCorrect`. It needs nothing of the list of nodes, and so does not
depend on `Alone`.

That the list of nodes matches the threads (`ListMatches`) is model-checked only, and for threads that
take turns, which nothing in the code makes them do; without it, it is false (`MCKeysRace`).

### AtomicWaitProofs

* `TypeCorrect`, `NodesListedCorrect`: `TypeOK /\ NodesListed`, inductive
  together. The lemmas on sequences say what an insertion at the head and the
  removal of a node do to the set of elements and to their being distinct.
* `QueueCorrect`: `AtomicWait` implements `WaitQueue`. Every action maps to an
  abstract action or to a stutter, given `NodesListed`; the hard one is `Notify`,
  where the first nodes of a list without repetitions are counted as a set.
* `MutexIsClient`: each step of the mutex is one of `AtomicWait`, so the three
  theorems hold for it.
* `NoLostWakeupCorrect` and `MutualExclusion`: at most the holder has "held", and
  the word is 1 exactly then (`MutexHeld`); threads wait and notify only as the
  mutex does (`Disciplined`); and, stronger than `NoLostWakeup`, while somebody
  sleeps a thread holds the mutex, is about to notify, or is awake and tries the
  lock, whatever the word is (`SleepersWoken`).

### FdTableProofs

`IInv` is `RefcountExact` with the types, what a thread holds at each place of its
operation (`OpsHold`) and that the initial descriptors are inserted in order
(`InitInOrder`, without which an initial insert could replace an entry). The
lemmas `AtGains` and `AtLoses` count references. A reference that is lost stays counted in
`stray` (`StrandStep`), so the theorem says how much too high a count is, and that it is never too
low. `NoUseAfterCloseCorrect` follows: what a
thread holds is counted, and what is counted is open. `RightsNeverReturnCorrect` is an
action property: each descriptor has no right after a step that a descriptor of the same
object, or the open that makes the object, did not have before.
`PrestatFollowsCorrect` is inductive with the domain of the labels (`NamesInv`): close and
renumber change the entry and its name with both locks held. A renumber whose copy
of the name fails leaves a name behind at a descriptor that is closed; what is
opened there later is a file, of which nothing asks for a name.

### FastInterpProofs

Contexts of the loader and machines are described as values of their own
(`Contexts`, `Machines`), so that most lemmas are about an operator, not a step.

* `BlocksKeepLocalsCorrect`, for all values of the constants. The marks of the blocks
  ascend within the stack and nothing below a mark is a local (`Frames`); what
  `local.set` may patch is above the mark (`Outputs`). `preserve_referenced_local` gives
  each local a slot of its own: `SlotForFacts` counts the locals that are found before it.
* `SlotsReservedCorrect` and `RepresentsCorrect`, for functions with a local
  (`Locals # 0`) in which no `br` leaves a block without a result for one with a
  result (`"br_out" \notin Ops`); without either it is false (`fast_br`, and the
  last paragraph of the section above). The invariant `Computing` has three parts.
  1. `Slotted`, of the context, in reachable and unreachable code: between the marks of two blocks
     the dynamic slots ascend, below the level at the end of that part
     (`PartOK`). It is all that unreachable code keeps: the parts of a block with a
     result may overlap, because branches leave `dynamic_offset` above where the block began.
  2. Where code runs (`LiveStack`), the parts are one: slots ascend through the whole
     stack, and no block is polymorphic. `Holds` and `HoldsLocals` are then
     `Represents`.
  3. Where a branch has skipped the code, what its target needs (`SkipsTo`): the
     operands below the mark of the target are still in their slots, and its
     result is where the end of that block looks for it (`HoldsEnd`); after an `if` that
     was false, what the else begins with (`HoldsElse`).
  `Continues` is the relation by which compiling skipped code keeps the third part;
  each operation has a lemma that it is in it and one that it keeps the second (`OperandsRun`,
  `LocalsRun`, `BlocksRun`, `BranchesRun`, `ElseRuns`, `EndRuns`). The end
  of a block is where the parts meet: what comes by a branch and what falls out of
  the block find the same context (`EndReached`). `NeededOnly` shows that the slots
  whose value the model forgets are not among those the invariant speaks of.

### WasmRunnerProofs

`RunnerInv`: what is held at each place of `iwasm_main` (`HeldAt`), and that the buffer
has the start of the flash (`BufferIsFlash`), for whatever writes the flash resets the chip.
`SizeDetected` says of every content that the search for the last byte stops behind
every byte that is not 0xFF. From these: `TypeCorrect`, `ReleasedInOrderCorrect`, `DumpInBufferCorrect` and
`FileIsLoadedCorrect`, for a file that does not end with 0xFF; of other files, and of those
that only a stale copy has verified, the instances `MCFileCut` and `MCOldCopy` tell.

### EmsHeapProofs

The properties of the run `heap` for a heap of any size, list sizes and requests:
`ChunksTileCorrect`, `FreeChunksListedCorrect`, `TreeOrderedCorrect`,
`ServesWhatFitsCorrect`, `NotCorruptedCorrect`, and `AllocatorCorrect`, the
refinement of `Allocator`; with them `TypeCorrect`. `NotCorruptedCorrect` is that no check
of the lists, of the tree (`Unbroken`: no tree of a sound heap has a node its parent does not
know) or of the walk that moves the heap fails.

All have one hypothesis, `[][Tame]_vars`, and it is about what the code leaves
behind, not about what the application asks for. A step is tame when

* an object that grows in place leaves a rest that is no single unit (`heap_rest`
  shows what becomes of one), and
* if it leaves no rest, no last word of an object is the distance to a
  chunk (`MCHeapWords`); the words that do no harm are 0 and those beyond the heap
  (`HarmlessWords`), and
* the memory grows while the lists are empty (`MCHeapMigrate`).

The three instances show that each condition is needed, and that the heap is
right in everything else is what the theorems say. Every step of the
instance `heap` is tame, its objects grow in place and its memory grows: requests there
are of two and four units, so that rests are even, `Words` is `{0}`, and `MayGrow` is
`ListsEmpty`. TLC agrees, and finds a step that is not tame as soon as a request of three
units is added.

The inductive invariant `HeapInv` is `Sound` of the heap and `Held` of the
application's objects. A heap is `Sound` when

* its chunks tile it and have two units at least (`Tiled`);
* what a chunk says of the one before it is true, and no two neighbours are free
  (`Marked`). Where `HarmlessWords` holds, an object may be followed by a chunk that
  takes it for a free one: this is what a realloc in place without a rest leaves, and
  the merge then looks at a word that leads nowhere;
* the free chunks are in the lists and the tree, each in the place its size asks for
  (`Linked`), and chunks that are in no list have no link (`Quiet`, or the link of an
  absorbed chunk could outlive it).

Lists and trees are described by witnesses, the nodes below each node and a rank that
shrinks on the way down (`Row`, `Subtrees`): an invariant that says there are such
functions needs no recursion, and a proof about a loop takes the node of least
rank at which it would fail (`LeastNode`). That is how `Rightmost`, the way down
of `AddTreeNode`, `BestFit` and `ListOf`, recursive functions all, are shown to find what
they should. `LoopEnds` shows that these functions exist in the first place.

The proof goes up as the code does. `SpliceTree`, `RenamedTree`, `RemoveTree` and
`AddTree` deal with the tree; a removal that relinks the predecessor in the removed
node's place is a splice and then a change of one address (`Renames`), and
`gc_migrate` is a change of all of them. `PushHead` and `TakeOut` deal with the lists.
`UnlinkIs` and `AddFcIs` put the two together, so that nobody above has to know where
a free chunk is. Each operation then has a relation that says what it does to the
objects of a sound heap, and a lemma that it does that and leaves the heap sound: `Took`
(`MallocIs`), `Freed` (`FreeVoIs`), `Resized` (`ExtendKeeps`), `Moved` (`MigrateIs`).
The application's part, the refinement included, follows from these relations alone.

### Model-checked only

Every liveness property: fairness and ENABLED are beyond the prover. Induction over
data is too, since the induction theorems of the library cannot be used; what a
recursive function yields is proved from the smallest place at which it would fail
(`FastInterp`, `EmsHeap`). Of the safety properties, `ListMatches`.

## Not modelled

* Of the thread manager: spawned exec_envs (an embedding interface), suspend and
  resume (the debugger's), `terminate_all` (no caller).
* Of lib-pthread: mutexes, conditions and semaphores, which hand the call to the
  platform.
* Of the heap: garbage collection, which the firmware does not build.
* Of the loader and interpreter: 64-bit operands, parameters of blocks, several
  results, `br_table`, `select`, calls and memory; parsing of sections and type
  checking, which keep no state; arithmetic, which depends on its operands only.
* Linear memory: growth is arithmetic on one memory, and the reference count of a
  shared one a single atomic.
* Everything that `sdkconfig` does not build: AOT is built and meets no file, since
  the runner asks for the magic of wasm; WASI threads, sockets, WASI-NN, shared heap,
  JIT, the debugger, the C API, language bindings and samples are outside the firmware.

What would come next: parameters of blocks and calls in `FastInterp`; `ThreadManager`
below `LibPthread` as one composed model, whose state space is beyond two workers.
