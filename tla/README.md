# TLA+ models of PGASUS

PGASUS is a C++ library for NUMA-aware programs: tasks that are spawned on a
NUMA node and may wait for each other, a scheduler with one pool of worker
threads per node, memory sources that allocate on a chosen node, and containers
whose parts are distributed over the nodes. This directory models its
tasks, scheduler, locks, memory sources, allocators and containers in TLA+,
model-checks them with TLC and proves with TLAPS the safety of the waiting protocol, the
scheduling domain, the worker pool, the reader-writer lock and the hash table, and the creation of
sources and the stacks of places of the memory part.

Source positions are relative to the repository root.

## 1. Inventory

### Components, state, operations

| Component (files) | State | Operations | Modelled by |
|---|---|---|---|
| Task waiting (`include/PGASUS/tasking/synchronizable.hpp`, `src/tasking/task_base.cpp`) | per task: state word, signal, client list, dependency set, three spin locks | spawn, schedule, yield, wait, notify, done, trigger_all, signal | `TaskSync`, abstractly `WaitService` |
| Waiting outside tasks (`src/tasking/task_interface.cpp`) | a semaphore and a Synchronizer on the stack of `numa::wait` | wait, notify | `TaskSync` |
| `numa::Mutex` (`include/PGASUS/mutex.hpp`) | locked flag, client list | lock, unlock with handover | `TaskSync`, `WaitService` |
| Scheduling domain, task collections (`src/tasking/task_scheduler.cpp`, `task_collection.cpp`, `include/PGASUS/synced_containers.hpp`) | per priority: a counter, a global queue, a queue per thread; the highest priority in use | put_task, try_get_task (with stealing), add_thread, remove_thread | `SchedulingDomain` |
| Scheduler, worker threads, thread manager (`src/tasking/task_scheduler.cpp`, `worker_thread.cpp`, `thread_manager.cpp`, `context.hpp`) | the workers and their contexts, the context cache, sleepers, the stop flags | put_task, get_next_task, waitForTask, taskAvailable, the worker loop, set_thread_count, worker_ids, destructor | `WorkerPool` |
| `RWLock` (`include/PGASUS/base/rwlock.hpp`) | one word: reader count and write flag | ReadGuard, WriteGuard | `RWLock` |
| `HashTable` (`include/PGASUS/hashtable/hashtable.hpp`) | per bin: bucket spaces and a count; per bucket: nodes and a generation | operator[], remove, resize, Iterator | `HashTable` |
| Distributed iteration, container wrappers (`include/PGASUS/hashtable/containers.hpp`, `hashtable.hpp`) | per node: a list of iterators and a counter of those handed out | cut a container or a table into units, one task per worker, collect the results | `Iteration` |
| Collective tasks (`src/tasking/task_interface.cpp`, `include/PGASUS/tasking/tasking.hpp`) | a counter and a semaphore used as a barrier | forEachThread, onceForEachNode, distributedExec, prefaultWorkerThreadStorages | `Iteration` |
| Nodes and topology (`src/base/node.cpp`, `topology.cpp`) | the physical nodes with CPUs and distances, the mapping to logical nodes | parse NUMA_NODES, number the nodes, nearest neighbours | `Nodes` |
| `MemSource` (`src/msource/msource.cpp`) | arenas, a list of directly mapped chunks, one packed count of handles and blocks, the list of all sources | create, ref, unref, alloc, alloc_align, free, migrate, stats | `MemSource`, abstractly `SourceLifetime` |
| Places, malloc replacement (`src/msource/stackedmalloc.cpp`, `include/PGASUS/malloc.hpp`) | per thread: a stack of places, its own source, the current source; per node: sources for the other nodes | push, pop, push_all, pop_all, malloc, memalign, realloc, free | `Places` |
| `NodeReplicated` (`include/PGASUS/msource/node_replicated.hpp`) | one object per node, created on demand | get | `Places` |
| ptmalloc3, dlmalloc (`src/msource/*malloc.c`, vendored, either may be built in) | boundary tags, small bins, tries of large chunks, designated victim, top, segments | the mspace functions | `MspaceBins`, `Mspace`, `Dlmspace` |
| `SpinLock`, `RefPtr` | one atomic | lock, unlock; take, release | taken as atomic |
| mmap helpers, debug output, timers, `Singleton`, notes | system calls, text, unused code | | not modelled |

### Interactions

* A running task or a native thread calls `numa::wait`, which becomes a client of
  the tasks it waits for; a task that finishes signals its clients and thereby
  puts waiting tasks back into the scheduler (`TaskSync`: action `NotifyTask`
  ends in the pc value `queued`).
* `Scheduler::put_task` first wakes sleeping workers and then inserts the task
  into the `SchedulingDomain` (`WorkerPool`: `Load`, `Exchange`, `Post`, `Put`).
  Workers call `try_get_task` of their own domain, sleep when it has nothing,
  and steal inside the domain.
* The three task models look at one task from three sides: `TaskSync` has the
  locks and the client lists and takes the scheduler as a fair pool of
  `NumWorkers` workers; `SchedulingDomain` has the queues and takes tasks as
  values; `WorkerPool` has the threads, contexts and sleeping and takes the
  queues as a set. What one module takes for granted another one checks:
  `PutIsTaken` (`SchedulingDomain`) and `QueuedTaskRuns` (`WorkerPool`) are what
  makes the weak fairness of a queued task in `TaskSync` reasonable.
* `HashTable` protects its bins and buckets with `RWLock`; `HashTable` takes the
  guards as atomic read and write locks that `RWLock` shows them to be, with the
  preference for writers that RWLock has. An iteration over the table
  (`Iteration`) works on a table that nobody changes.
* Collective calls put one task per worker or node into the schedulers and
  wait for all of them. `Iteration` takes the scheduler as `SchedulingDomain`
  and `WorkerPool` show it to be (a queued task is taken by some worker of its
  node) and the wait as `TaskSync` does. Which nodes there are, and under which
  numbers, comes from `Nodes`.
* The malloc replacement finds the current source of its thread (`Places`) and
  allocates from it (`MemSource`); `Places` extends `MemSource`, and a thread's
  operation is a list of calls (ref, unref, alloc, free, migrate ...) that it
  works off step by step. A task takes its stack of places along when it leaves
  its worker. An arena is an mspace: `MemSource` abstracts it to the room left
  in it, `Mspace` and `Dlmspace` model what happens inside.

### What is hard here

Spin locks taken in the order of user data (wait lists); a waiter that is
notified while it is still on its worker; handing over a locked mutex;
counters that are updated after the data they count; lazily created queues
beside threads that come and go; a wakeup that is sent before the work is
visible; sleeps that time out without leaving the counter of sleepers; stacks
that migrate between workers; guards released between a search and the
insertion based on it; iterators that survive a resize; the last use of a
source, which may be a handle or a block; locks that are taken in one walk over
a growing list and released in another; objects created on demand, while the
creation itself allocates; a barrier that needs every worker; boundary tags and
tries that a wrong step damages long before it shows. `PROJECT.json` lists
each of these at its line, with the properties that would notice it.

## 2. The modules

### TaskSync, WaitService, TaskSyncInv, TaskSync_proofs

`TaskSync` has one thread of control per task and per native thread; `pc` says
where it is. Variables `state, signaled, locked, clients, deps, sem` are the
fields of `Task`, `TwoPhaseTriggerable`, `Mutex`, `Triggerable`, `Synchronizer`
and `NativeThreadWait`; `taskLock`, `trigLock` and `syncLock` are the spin locks
(`Task::_mutex`, `Triggerable::_mutex`, `Synchronizer::_mutex`), recording their
holder. One step is what happens between two acquisitions of a lock:
`StartWait` takes the task's own lock, `BeginSync` the waiter's, `Register` the
lock of one element of the list, and so on to `EndSyncNoWait` or
`EndSyncMustWait` and `Park` (the switch to the neutral context, which unlocks
the task). `Finish`, `SetSignaled`, `Signal`, `NotifyTask`/`NotifyNative`,
`EndSignal`, `EndDone` are `Task::done`; `Unlock`, `Signal` ..., `ReleaseFree`,
`EndRelease` are `Mutex::unlock`. An assertion that would fail sets `failed` and
stops the program.

`waiting` and `obtained` are history variables: what a wait in progress is for,
and what earlier waits have returned. They are the state of `WaitService`, the
specification a user of the library has in mind: a wait returns only when all its
tasks have finished, a lock only when the mutex is free.

Simplifications: a member of `Natives` stands for one call of `numa::wait`, or one
lock and unlock, of a native thread (its Synchronizer lives on the stack of that call); a task never locks a mutex it
holds and returns from its function without mutexes (the code has no recursive
mutex and no owner); objects live as long as somebody may use them (reference
counts of tasks are not modelled); the places a task takes along are in `Places`; home
threads are left out.

### SchedulingDomain, SchedulingDomain_proofs

One domain, at the grain of single atomic accesses. `queue[p][q]` is the queue
`q` of priority `p`; `ptr[p][i]` the queue pointer of thread `i` in the collection
of that priority, `made[i]` how many queues thread `i` has had, `created[p]` whether
the collection exists, `count[p]` its task counter modulo `CountMod`, `top` the
index of the highest priority; `setup` the priorities of the tasks, who takes part
and which thread ids come and go. `PutTask, Create, LoadQueue, Push, Count, Return`
(`CompareTop, ReadTop, CasTop` for a raised priority) are `put_task`; `GetTask,
Check, LoadOwn, PopOwn, PopGlobal, LoadSteal, PopSteal, Uncount, GetReturns` are
`try_get_task`; `AddThread, Register, AddReturns` and `RemoveThread, Detach,
DrainPop, DrainPush, DrainEnds, RemoveReturns` the resizing. `SyncDeque` holds its own
spin lock over the whole of push and pop, so each is one step.

### WorkerPool, WorkerPool_proofs

One `Scheduler` with its `WorkerThread`s. `setup` says how the pool is used in the
behaviour at hand (which thread counts are set, whether it is destroyed, what its tasks do). `wpc[c]` is where the worker of core `c`
is in `WorkerThread::loop` and in the task on it; `curCtx`, `ready`, `cache`, `ctx`
say where every context (stack) is; `count` and `sem` are `_waitingThreadsCount`
and `_waitingThreadsSemaphore`; `done` and `thread` the stop flag and life of the thread; `call[u]`
a `put_task` in progress; `admin` a `set_thread_count` or destructor in progress.
`deregister_all` waits for all threads to terminate (`JoinAll`) and then destroys one worker after
another (`DestroyWorker`, `DestroyReturns`).

Simplifications: the queues are one set (their order and stealing are
`SchedulingDomain`'s business); the thread states CREATED, ASSOCIATED and
FLOATING exist only within one step; `WorkerThread::notify` posts a semaphore that
nobody waits for and is left out; the id of a context that is leaked may be
given again once no pointer to it is left; `set_threads` is
`set_thread_count` with another choice of cores. `set_thread_count` is public,
although only the constructor calls it.

### RWLock, RWLock_proofs

Each `Guard` is one guard object, reused for the next acquisition. `value` is the
word, `oldV` the local copy each guard keeps for its compare-exchange. Each atomic access is one
step. A spuriously failing weak compare-exchange changes nothing but
`oldV`, which gets the value it already had or the current one, so it is a step of the model too.

### HashTable, HashTable_proofs, SequenceFacts

`spaces[b]` is the sequence of bucket spaces bin `b` has had (iterators keep old
ones alive), `count[b]` its node count, `keyOf` the keys of the nodes created so
far. `GetOrCreate, RemoveKey, ResizeIfNecessary, Resize, Enter, Search,
AddToBucket` are `operate_on_bin` with the callbacks of `operator[]` and `remove`;
`Begin, OpenBin, OpenBucket, BinEnds, End, NextNode` are the iterator. `visits`
and `promised` are history variables: how often an iterator stood on a node,
and which nodes its bins had when it reached them. `Rehash` is the loop of `resize`: each bucket of the
larger space gets the `Sublist` of the nodes, in their order, that hash to it.

`SequenceFacts` has the lemmas on lists that all the proofs share: what `push_back`, `pop_front` and
concatenation do to the set of elements, to repetitions and to the length, and that a set of naturals has a least element.

Simplifications: the upper half of a bucket's generation (the
generation of the bin) is dropped, as generations are compared only within one
bucket; `lookup`, `set` and `find` are templates that cannot be instantiated (they
name members that do not exist) and so are not behaviour of any program.

### Nodes, Iteration

`Nodes` has operators for what is computed once: `getPhysicalToLogicalMapping` with
the parsing of NUMA_NODES (a request is a sequence of ranges, each a sequence of one
or two tokens, which may be malformed or empty), `logicalNodes`, `nearestNeighbors`.
`Iteration` is one collective call. `StdIterations` and `HashIterations` cut a container
or a table into the units of each node; `Call, put_task, wait` are the caller;
`try_get_task` and then `get, visit, collect` (for_each), `function` (onceForEachNode,
distributedExec) or `prefault, arrive, sem_wait, sem_post, update` (prefault) the
workers, each of which may first be busy with a task of somebody else.

Left out: memory of a logical node without CPUs and a table without a bin on some logical
node, which the code does not survive (observations 12 and 13); changes of the container during the iteration.

### MemSource, SourceLifetime, Places, Places_proofs, Counts_proofs

`source[s]` is a `MemSourceImpl`: arenas with their room and lock, `mmapped_chunk_head`
and its lock, `arena_lock`, and `blocks`, the packed word of `BlockCount` with
`BlockBits` bits for the blocks. `chunk` are the blocks ever allocated, with the footers' links.
A step is what one lock or one atomic access makes atomic: `allocMap, allocLink,
allocLinked` (a mapping of its own) or `allocLock, arenaAlloc, arenaAllocEnd, create_new_arena,
allocUnlock`, then `allocCount`; `freeInArena, freeInArenaEnd` or `freeUnlink, freeUnmap`, then `freeUncount`;
`unrefLook, unrefDescribe, unrefDeref`; `destroyRemove, destroyFinish`; `migrateLock ... migrateEnd`.

`Places` adds the threads' storage (`tls`, `current`), the sources of each node for the others
(`msources`), saved stacks of tasks (`saved`), handles in user variables (`hold`) and node-replicated
objects (`replica`). Its actions are the operations of `stackedmalloc.cpp`, of `MemSource` handles and
`NodeReplicated::get`; each thread runs a short program of them. A handle is an ordinary object: threads
that share one synchronise what they do with it, so an operation begins only when no other thread is in the middle
of one that conflicts with it (`doing`, `Conflict`). A thread that gets no memory for its storage, or for the
stack a task saves, does not survive in the code (nothing checks for the null pointer); in the model it stops.

`SourceLifetime` is what users rely on: a source exists while a handle or a block does, only a
handle makes more, the end comes once. `ImplementsLifetime` maps the two halves of the
packed word to its two counters; it includes the fairness of `Reclaim`: an abandoned source does go back to the system.

### MspaceBins, Mspace, Dlmspace

`MspaceBins` has the structures and their primitives: boundary tags (`head`, `foot`), small bins,
tries with rings of equal chunks, `insert_large_chunk`, `unlink_large_chunk`. `Mspace` has the
searches, coalescing and the operations of ptmalloc3, the checks that the debug build makes
(`do_check_malloc_state` and what it calls), and a client. `Dlmspace` adds dlmalloc's
`sys_alloc`, `prepend_alloc`, `add_segment`, `sys_trim`, `release_unused_segments`, direct mappings, in-place
reallocation and bulk free. An operation is one step, as an mspace is used under the lock of its arena. Addresses
and sizes count words; sizes wrap at `2^SizeBits`. The system answers a request for pages by a mapping below
or above the existing ones, or refuses the first time ("late") or always ("no"). A setup is
`[impl, capacity, layout, requests, maxLive]`: which allocator, the size of the first segment, blocks that
are allocated at the start (the small ones among them are never freed), the sizes asked for, and a bound on live blocks.

These modules use recursive operators for walks through tries and rings, so nothing is proved about them.

## 3. The runs

| Run | Instance | What it shows |
|---|---|---|
| `wait` | 3 tasks, 1 native thread, 2 workers; t1 waits for t2 and t3, t2 for t3, the native for t1 and t3 | assertions hold, waits are sound, no wakeup is lost, completed tasks may be destroyed, clients are notified, all tasks complete, `WaitService` is implemented |
| `mutex` | 2 tasks and a native thread on one mutex | mutual exclusion, no waiter on a free mutex, every lock returns |
| `crossed_lists` | 2 native threads name two tasks in opposite orders | **violated**: a deadlock of four spin locks |
| `domain` | two setups: 2 putters of different priorities, 1 worker and a thread id that comes and goes; 1 putter and 2 workers after tasks of one priority | no task lost or handed out twice, counters exact up to calls in flight, late collections have the right queues (`DomainConsistent`); the priority index covers every queued task; every task is taken, unless its queue was removed under the hands of its put_task |
| `pool` | 2 cores; two setups: 1 task and a native thread with a scheduler that may be destroyed at any time; 2 tasks with a pool that shrinks and grows | sleepers are accounted for (`PoolConsistent`), no stack in use twice, a queued task runs, the destructor returns |
| `rwlock` | 3 guards, flag 4 | exclusion, no failing check, a writer that announced itself gets in |
| `hash_table` | 2 bins, 2 colliding keys, 2 threads, 1 iterator, 3 nodes | no node lost or misplaced, load and duplicates bounded (`TableIsIntact`), iterations that end are exact, operations return |
| `hash_duplicate` | 1 bin, 2 threads | **violated**: two nodes for one key |
| `hash_iterator` | 1 bin, 3 keys, 1 thread, 1 iterator | **violated**: the iterator does not find a higher hash |
| `mspace` | four setups: ptmalloc3 on a fresh mspace and on one whose free chunks fill a trie; dlmalloc on a small mspace with three pages of the system, with blocks of three sizes and with large blocks only | all checks of the debug build hold, blocks are disjoint, mapped and large enough, malloc fails only when nothing fits and takes the best fit, freed memory comes together again |
| `memory` | 2 threads, 2 nodes, 1 task, 5 programs (see `MCPlaces`): a shared source given up by both, places of a task that moves, growth during migrate, mapped chunks and realloc, replicas and handles | counts are exact, sources live exactly as long as they are used, locks and the chunk list are right, malloc goes to the top place, lazy creation happens once, operations return, `SourceLifetime` is implemented |
| `iteration` | machines of 2 and 3 nodes (gaps in the ids, a node without CPUs, unreadable distances), 21 forms of NUMA_NODES, 14 iterations and prefaults | nodes are numbered densely and as asked, each element or node is served exactly once, each worker prefaults, the call returns |

Why these bounds are enough: the shortest interesting case of each hazard
fits. A diamond needs three tasks; a handover of a mutex past a third
contender needs three threads; a lost update of the priority index needs two putters
and three levels; a steal during a drain needs two threads' queues; a context
that moves needs two workers and two tasks; a writer waiting for two readers needs three guards; a
resize under an iterator needs two nodes and a load limit of one. A race on the last use of a source needs
two threads with one handle or block each; an unlink in the middle of the chunk list three
mapped chunks; an arena added under a running migrate one allocation too large for the first.
A barrier that is not passed on needs three workers. A trie node with two children and a ring, whose removal
brings up a leaf from below, needs five free chunks of one bin, which is what the layout of the second
`mspace` setup provides; of the branches of dlmalloc only two are not
reached: a prepended segment that merges with the designated victim, and the release of a
segment whose only chunk is the designated victim. The bounds on otherwise unbounded behaviour:

* `MaxDrops` (`TaskSync`) and `MaxCalls` (`WorkerPool`): how often the function of a
  task yields, waits or calls the library before it returns;
* `MaxQueues` (`SchedulingDomain`): how often a thread id is registered;
* `maxWaits` of a setup (`WorkerPool`): `_waitingThreadsCount` is never decremented by
  timeouts and would grow without limit while no task arrives; a worker stays in
  its polling loop once the counter has this value. In the setup with the resized pool it is 0, as stacks do not
  depend on sleeping;
* `MaxNodes` (`HashTable`), `MaxContexts` (`WorkerPool`), `MaxArenas` and `MaxChunks` (`MemSource`): how many objects are created;
* `maxLive` of a setup and `Pages` (`Mspace`): blocks held at a time, memory of the system;
* the programs of `MCPlaces` are finite: each operation occurs in at least one of them, beside another thread
  that touches the same source, node or task.

Waiting for tasks and locking mutexes are checked in separate runs, because a task
that waits for others while it holds a mutex they need is a deadlock
of the user's program. Tasks call `worker_ids` (as `forEachThread` does) only in
the setup of `pool` whose pool does not shrink: see observation 3 below. A mapping that memalign has shifted
is not reallocated (observation 9).

### Fairness

* `TaskSync`: the kernel schedules workers and native threads, so a step that
  is enabled for ever is taken; the function of a task returns after `MaxDrops`
  interruptions; an owner unlocks its mutex. Nobody has to spawn or to
  wait. Spin locks are not fair, and the model uses weak fairness only: a thread that
  spins gets the lock only if it is free for ever from some point on. With finitely many operations per
  run this is the case.
* `SchedulingDomain`: calls that began go on and workers poll again; nobody has to put a task
  or change the threads.
* `WorkerPool`: threads run, a sleep ends at the latest with its timeout (10 ms in
  the code), the function of a task returns, the administrator's calls go on.
* `RWLock`: a guard that has begun goes on and is destroyed some time. New readers may
  come for ever; a writer that has set its flag gets in nevertheless. A writer that has
  not set it yet may starve, and no property says otherwise.
* `HashTable`: operations and iterations that have begun go on. The table is a passive object, so
  its runs do not check for deadlock: a state in which nobody calls it is not one.
* `MemSource`, `Places`: every thread goes on with its operation; spin locks are weakly fair, which is enough as
  programs are finite. The runs end, so deadlock is not checked; `EveryOperationReturns` excludes a hanging one.
* `Iteration`: the caller goes on, workers take queued tasks of their node and finish them, also the foreign task a worker
  is busy with at the start. The run ends when the call has returned.
* `Mspace`: a sequential object, no fairness and no liveness.

### Findings

1. *Crossed wait lists* (`crossed_lists`). `synchronize(list)` holds the waiter's
   lock while it takes the locks of the tasks, `trigger_all` holds the task's lock
   while it takes those of the clients. Two waiters that name two tasks in opposite orders
   while both tasks finish can spin for ever.
2. *Duplicate keys* (`hash_duplicate`). `operator[]` searches under one guard and inserts
   under another, without a second search.
3. *Iterator after an insertion* (`hash_iterator`). Once the generation of its bucket
   has changed, `next()` looks for a hash that is not lower (rather than higher) in an
   unsorted bucket, and never takes over the new generation: it returns the same element for ever.

Observations that are not findings, because nothing in the repository promises otherwise or no run shows them:

1. `put()` may push into the queue of a thread that `deregister_thread` has just
   drained; the task stays there until the thread id is registered again
   (`src/tasking/task_collection.cpp:95`). Only a shrinking pool can do this.
2. A worker told to stop abandons a task that was just dropped as yielded or waiting
   (`src/tasking/worker_thread.cpp:146`); hence `QueuedTaskRuns` speaks of queued tasks, and of a scheduler that
   is not being destroyed.
3. `stop_wait_thread` joins the worker while it holds `_workers_lock`; if the task on that worker asks for
   `worker_ids`, neither goes on (`src/tasking/task_scheduler.cpp:276`). The destructor joins without
   that lock, so `DestructorReturns` holds.
4. `try_get_task` may return nothing while a task is queued, as the
   counter is updated after the queue (`src/tasking/task_scheduler.cpp:124`); the worker polls
   again, so `PutIsTaken` holds.
5. Naming an unfinished task twice in one wait registers the waiter twice for one dependency, and the second
   `signal()` fails its assertion (`include/PGASUS/tasking/synchronizable.hpp:122`). The theorems assume `DistinctLists`.
6. Two calls of `prefaultWorkerThreadStorages` at once mix their tasks on the workers and wait for each other in
   their barriers (`src/tasking/task_interface.cpp:158`).
7. `realloc` keeps the block when it fits into `get_block_size`, which for a mapped chunk counts the footer
   (`src/msource/msource.cpp:498`, `stackedmalloc.cpp:374`). For aligned blocks of mapped chunks `FROM_POINTER(p)` does not find
   the footer (`msource.cpp:382`, `498`). `MCPlaces` aligns only blocks of arenas.
8. In a dlmalloc build `mspace_malloc` does not fail on a full arena but grows by `sys_alloc`: that memory is
   not bound to the node of the arena, no second arena is created, and as `~Arena` does not call `destroy_mspace` it is never given
   back. `MemSource` models arenas of ptmalloc3.
9. dlmalloc's `mmap_resize` computes the size of the new mapping without the shift of the chunk in it
   (`src/msource/dlmalloc-malloc.c:2448`): after memalign the block may be smaller than asked. msource.cpp calls neither
   function on mspaces.
10. `migrate` allocates its page vector while it holds `arena_lock`; when the current source of the thread is the one that is
    migrated, it waits for itself (`src/msource/msource.cpp:506`; guard `CanAllocate`).
11. `stats()` walks the chunk list without its lock; `MemSourceImpl::create` does not check its mmap; `moveMemory` fills in only non-null pages
    (`src/msource/mmaphelper.cpp:91`); `pvalloc` and `calloc` do their arithmetic without overflow checks (`stackedmalloc.cpp:424`, `364`).
12. NUMA_NODES with a negative or empty number indexes the mapping with -1 (`src/base/node.cpp:102`); elements on a
    node without CPUs have no iteration (`include/PGASUS/hashtable/containers.hpp:325`), and bins on such a node are never visited (`:135`); `policy(it)` is
    evaluated at `end` (`:323`).
13. `ParallelIteration` divides by the number of bins on its node (`include/PGASUS/hashtable/hashtable.hpp:616`). `insertAsync` names its guard
    `numa::Place`, which does not push anything (`:561`, `:570`).

## 4. The proofs

`TaskSync_proofs` proves, for any sets of tasks, native threads, mutexes and wait lists,
from `DistinctObjects`, `WaitListsType`, `BoundsType` and the hypothesis
`DistinctLists` (no wait list names a task twice, see observation 5):
`TypeCorrect`, `AssertionsHold`, `WaitIsSound`, `MutexExcludes`, `FreeMutexHasNoClients`,
`WakeupsNotLost`, `CompletedCanBeDestroyed` and `Refinement` (`Spec` implements
`WaitService`).

All follow from `Inductive`: `IndInv` is an invariant. None of the properties is
inductive alone. That `signal()` finds a dependency needs `ClientInv` (client lists and dependency
sets are each other's inverse, without repetition); that needs `LockInv` (who holds which lock at which pc,
so that nobody changes a list meanwhile). That `notify()` finds a task in state WAITING needs
`NotifyInv` and `StateInv`; that no wakeup is lost needs `WakeupInv` (who parks
without a dependency is being notified by the holder of its lock); that a mutex is exclusive needs
`MutexInv`, which counts a mutex as granted from the moment of its handover,
before the new owner runs. Each action has a lemma `...KeepsInv` with one step per part it can
disturb; the lemmas at the start of the module say what appending to and removing from a client list does
to its range. The refinement adds `HistoryInv` and maps a task to finished when it is signalled; the
lemma `StepKinds` sorts the steps into those that change the history and the others, which stutter.

`RWLock_proofs` proves, for any finite set of guards smaller than the flag (`FlagAssumption`; in the code the
flag is 2^30), `LockInvariant`, `WriteExclusion`, `LockChecksHold` and `LockTypeCorrect`. `LockInv` says
that the word is the number of readers plus the flag of the only writer; the lemma `ReaderCount` gives the
cardinality after a guard enters or leaves.

`SchedulingDomain_proofs` proves, for any tasks, priorities, callers, thread ids and setups, from
`DomainConstants` alone, that the domain is consistent (`DomainIsConsistent`) and that its priority index covers every
task whose `put_task` has returned (`TopIsHighEnough`). The parts of `IndInv`: `PutInv`, `GetInv` and `AdminInv`
say what a call has in its local variables at each `pc`; `PointerInv`, which collections `add_thread` and
`remove_thread` have reached; `QueueInv`, `ApartInv` and `SomewhereInv`, that each task is in exactly one of
the queues, the callers' hands, the drain's hand, the tasks not yet put and the tasks taken. `CountInv` is an equation
modulo the width of the counter: what is queued, minus the puts that have not yet counted, plus
the gets that have not yet uncounted; "the counter is right when nobody is inside" is not inductive. `TopInv`
lets an index be too low for a task only while its own `put_task` is still going to raise it. A priority
that two putters raise at once needs `pc[u] = "cas" => seen[u] < idx[u]`.

`WorkerPool_proofs` proves, for any cores, tasks, contexts, native threads and setups, from `PoolConstants` alone,
that sleepers are accounted for (`SleepersAreNotForgotten`) and no stack is used twice (`StacksAreNotShared`). `WakeInv`
adds up the counter, the semaphore and the wakeups that a caller still owes after its exchange
(`Pending`); it needs `CallInv`, as only callers in the middle of posting owe any. `ContextInv` says where a
context may be; it needs `TaskInv` (a task is with one worker, in one `put_task` or in the queues, so no two
workers resume the same stack) and `LifeInv` (a core has a worker with a context exactly
while its thread runs, also while it is being joined). `set_thread_count` takes the first free core: `LeastElement`.

`HashTable_proofs` proves, for any bins, keys, hashes, load limits, threads, iterators and nodes, from `TableConstants`
alone, `TableStaysIntact` and `IterationsAreExact`. `SpaceInv` speaks of all spaces a bin ever had: a node is in
the bucket of its hash and nowhere else, and a generation never exceeds the number of changes. `PlaceInv`
says that the current space has exactly the live nodes; `OpInv` that a
thread between its search and its insertion is in the current space, because resize waits for it. "Load
below the limit plus the threads" and "a key has at most as many nodes as there are threads" are not inductive:
`LoadInv` counts the `operator[]` calls that found the bin below its limit as if their nodes were there already,
`DuplicateInv` those that did not find the key, and `RoomInv` is the same for the bound `MaxNodes`. `IterInv` keeps an iterator
inside a space that its bin has had.

`Places_proofs` proves, for any threads, nodes, sources, tasks, handles, sizes and programs, from `CountAssumption` and
`PlaceAssumption` alone, `CurrentIsRight` and `CreationIsUnique`. A thread's operation is a list of pending calls, and
what holds in the middle of one depends on what is still pending. `OrderInv` says which call may come after which
(`AfterCall`), so that a thread that has, say, still to publish a source has nothing pending that reads it; `TlsInv` ties
the stages of the thread's storage to the calls `construct`, `init` and `curr` that are pending. `LocalInv` and
`ReplicaInv` say that whoever has a source or replica to publish holds the lock of its node and that nothing is
published there yet: the second look under the lock (`NodeLocalStorage::get`, `NodeReplicated::get`) is what establishes it.
"The current source is that of the top place" is not inductive, since `push` changes the stack first and the source
last: `CurrentInv` says it unless a `curr` is pending, and relies on `SourcesLast`, as a source of a node that was replaced would
change the answer of every stack with that place. For each action a lemma states which calls it may leave pending
(`...Shape`). All of this rests on the type invariant, in which sources and chunks are typed by those that exist so
far, which only grow (`Widen`).

`Counts_proofs`: `CountsAreRight` is about the packed word of a source (`MemSourceImpl::blocks`), which every thread changes by one atomic addition: it
is always `2^BlockBits` times the handles plus the blocks. A reference is taken or given back some steps before or after the variable that
justifies it changes, so the handles counted are those that everybody can see (`Shared`: start-up, `msources`, the stacks of waiting tasks, user variables)
and the `Account` of each thread: what its storage holds, plus the calls it still has to make (`Weight`: a handle to be bound or published and
a reference to be given back count one, a reference to be taken counts minus one). Blocks are those in use and those that wait for the call that frees
them; there are never more than were ever allocated, which keeps the low bits from running into the handles (`MaxChunks < RefUnit`, part of
`CountAssumption`: the one place where the proof needs the width of the field). `CountInv` says this; what it needs from the others is who may write what:

  - `ClientInv`: two threads in the middle of operations do not conflict, and a handle still to be bound is empty and written by nobody else;
  - `TaskInv`: the stack of a waiting task changes only in the hands of the worker that holds the lock of the task;
  - `BlockInv`: every block has at most one owner: in the hand of a thread that is allocating or moving it, the storage of a thread, or a place
    saved by a task, and whoever has yet to free one is the only one to do so;
  - `HomeInv`: the sources of the nodes are there.

A lemma for each action (`...Keeps`) says that it leaves the books even, or, for the atomic additions themselves, that the word and the books change by the same one
(`Books`). `CountsInvariant` puts these together.

For iterations, `ExactInv` states what an iterator at each position has stood on (`Visited`, `Inside`): once on the promised nodes
of the bins and buckets behind it, on none of those ahead, and on the nodes of its own bucket up to its
index. It holds only for an iterator that is not `Stuck`, that is, whose bucket has not changed since it was entered: after a change `next()`
may return a node again. Such an iterator does not end, and this has to be part of the invariant: as long as nothing is removed, the
node it stands on is still in its bucket (`Stands`), so that the search finds one with a hash that is not lower, and the
generation, which it never takes over, keeps it searching (lemma `StuckStaysStuck`; the run `hash_iterator` shows such an
iterator). So `IterationIsExact` holds for the iterations that end, and says nothing about the ones that are stuck. Once a node is
removed during an iteration nothing is promised.

Each inductive invariant was checked by TLC on the instance of its run before it was proved. What a theorem assumes of the
constants is the named `ASSUME` of its module and nothing else; that sets of tasks or nodes are finite is part of
the invariants where it is needed, as they grow by one element at a time. Since induction over data is out of the prover's reach,
lemmas on lists are proved through a smallest counterexample (`LeastElement`): that `FlattenSeq`, a recursive
function of the library, has the elements of its parts and keeps injective ones injective (`FlatteningExists`, `FlattenUnfolds`,
`FlattenFacts`). `Rehash` is written with `FlattenSeq` rather than `SelectSeq` for this reason.

Model-checked only: all liveness properties (outside the prover's reach: that a task put is taken, that a queued
task runs, that waits, locks, operations and destructors return), the three violated promises, everything about
`Nodes`, `Iteration` and the mspaces, and the properties of `Places` that section 5 names. What the recursive
operators of the mspaces compute is outside the prover's reach.

## 5. Not modelled, and plan

Not modelled: lifetimes and reference counts of tasks, workers and hash table nodes (scoped `RefPtr`s); absolute times; `Singleton` (no
user); debug output, timers and formatting; the wrappers around mmap, mbind and move_pages; the hash table members that do not
compile; of the vendored allocators `create_mspace` and `destroy_mspace` (not called by an arena), the MORECORE
branches (not compiled for mspaces), `sys_alloc` of ptmalloc3 (unreachable from `mspace_malloc` there), `mallopt`, the inspection callbacks, and the global malloc functions.

Proofs worth adding, most important first:

1. `LivesWhileUsed` and `LocksMatch` of `Places`. `CountsAreRight` is the larger part of the first: what is left is that a thread which is about
   to take a reference has one in its account already, or one that lasts as long as its operation.
2. `ChunkListIsWhole` of `MemSource`: `mmapped_chunk_head` and the links of the footers are a doubly linked list of the mapped blocks.
3. `ImplementsLifetime`, step by step.
4. `EveryWorkerPrefaults` of `Iteration`: the barrier lets nobody pass before all have arrived.

## 6. Running

    tlc -config TaskSync_wait.cfg MCTaskSync       # likewise the other cfg files
    tlapm TaskSync_proofs.tla
    tlapm RWLock_proofs.tla
    tlapm SchedulingDomain_proofs.tla
    tlapm WorkerPool_proofs.tla
    tlapm HashTable_proofs.tla
    tlapm Places_proofs.tla
    tlapm Counts_proofs.tla
    tlapm SequenceFacts.tla

`PROJECT.json` says which module and configuration belong to which run, which lines each definition models, and
for every property a faulty variant of a definition (marked "faulty" in the modules) under which TLC finds it
violated.
