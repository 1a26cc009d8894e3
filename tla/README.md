# A TLA+ verification of Contreap

Contreap keeps every version of a treap of counted 64-bit keys. A workload is a
sequence of insertions, deletions and range queries, and version `v` is what the
first `v` transactions make of the loaded elements. Its point is that the
transactions are executed *concurrently* while the versions come out *as if*
executed one by one. This project models that machinery, the backends it is
compared with, the generator and the driver around them, and the two concurrency
libraries in the repository they all run on. TLC checks it on small instances, and
TLAPS proves, for every number of threads, tasks, queries and nodes, the protocols on which
the order of the versions and the exclusive use of shared memory rest.

## 1. Inventory of the system

| part | source | state | operations | interacts with |
|---|---|---|---|---|
| treap algorithms | `lib/treap/{node,search_insert,search_delete,augment,query}.hpp` | immutable nodes with version, priority, key, counter, lazily cached sum | path-copying insert and delete, `augment`, `find`, `range_estimate` | used by both treap backends |
| bulk load | `lib/treap/build.hpp` | nodes relinked in place by forked halves | `build_parallel`, `merge`, `split`, `augment_parallel` | makes version 0; runs on `par_do` |
| pipeline | `lib/treap/scheduler.hpp` 199-221, 289-307 | `tokens_[]`, `num_issued_`, `num_submitted_` | master push, pipe take / wait / pass / notify, boarder | hands tasks in order from main to the workers |
| concurrent updates | `lib/treap/scheduler.hpp` | `ctxs_`, `num_fetched_`, `num_committed_`, `num_estimated_`, the heap | a step of a task by master, pipe or worker; commit; estimation of blocks; `process`, `get_snapshot` | pipeline below, backend above |
| contreap backend | `db/contreap.hpp` | scheduler, query processor | `Insert`, `Delete`, `Query`, `Close` | both |
| sequential backend | `db/sequential.hpp` | `roots_`, `num_versions_` | `Insert`, `Delete`, `Query`, `Close` | treap algorithms, query processor |
| batch backend | `db/batch.hpp` | buffer, list of batch roots, a cursor per client | buffered updates, `do_update_`, queries | PAM, query processor |
| batch trees (PAM) | `lib/pam/*` | nodes with versioned values and `vstat` | `build_versioned`, `copy_merge`, `copy_subtract`, `range_estimate` | batch backend, `par_do` |
| query processor | `db/include/query_processor.hpp` | queue, `working_`, results | `Start`, `Push`, `Stop`, the client loop | moodycamel queue; calls back into the backend |
| driver | `main.cpp` | the workload file, options | reads, loads, issues, `Close` | generator's file, one backend |
| workload generator | `ycsbc/` | key counters, the export file | load and run phases of the clients | the file only |
| fork-join scheduler | `lib/parlay/scheduler.h`, `internal/work_stealing_{deque,job}.h`, `parallel.h` | a deque per worker, `num_awake`, shutdown flags | `pardo`, steal, sleep, wake, `parfor`, `blocked_for` | runs bulk load and batch updates |
| waiting on atomics | `lib/parlay/internal/atomic_wait.h` | contention table | wait, notify | parlay's sleeping workers; the pipes wait with `std::atomic_wait` (`scheduler.hpp:203`), which `Pipeline` takes at its word |
| thread ids and storage | `lib/parlay/thread_specific.h`, `internal/thread_id_pool.h` | list of ids, chunks | birth, death, access, iteration | hazard pointers, allocators |
| memory | `lib/parlay/internal/{block_allocator,pool_allocator}.h`, `alloc.h`, `internal/concurrency/*` | local lists, global stacks, announcements, retired nodes | allocate, free, reserve, clear, push, pop | everything of parlay |
| sequences, hash table, sorts | `lib/parlay/{sequence,hash_table}.h`, `internal/{sequence_base,merge_sort,merge,quicksort,bucket_sort,counting_sort,integer_sort,sample_sort}.h` | storage, cells | insertion, growth, phases, sorts | fork-join scheduler |
| queue | `lib/moodycamel/concurrentqueue.h` | producers (explicit, implicit), blocks, indices, free list, table of producers, tokens | enqueue and dequeue, single and bulk; creation, moves, destruction | query processor |
| blocking queue | `lib/moodycamel/{blockingconcurrentqueue,lightweightsemaphore}.h` | semaphore count, kernel semaphore | wait, timed wait, signal | queue |
| priorities, logging, timing, tests | `lib/aes_hash.hpp`, `utils/`, `test/` | | | |

Of parlay Contreap itself calls `par_do` and the scheduler's start and shutdown, whose
workers sleep in `atomic_wait`; of moodycamel it uses one explicit producer token and
`try_dequeue_from_producer`. The other parts of these two libraries are modelled as
parts of the repository, with the calls their own interface allows.

What is hard about it:

* **Waiting by wrapped counters.** A pipe takes a token with `fetch_sub` and, if
  the counter was 0, waits for it to leave `~0`. Who notifies is decided by the
  wrapped value (`scheduler.hpp:202-208`).
* **Working on versions that do not exist yet.** Task `t` copies nodes of version
  `t-1` while task `t-1` is still on its way down. What keeps it correct is a
  different rule at each level: order in the pipes, `stage` comparison in the workers
  (`:236`), waiting for commits before a subtree is restructured (`:119`, `:131`), and
  running to completion once the dependency is committed (`:234`).
* **Who waits for whom.** Master and pipes wait for commits, the collector for
  workers, workers for the boarder and for each other, the boarder for the pipes;
  clients for workers, `Close` for all; parlay's sleepers for whoever pushes a job.
* **Publication.** `get_snapshot` neither looks at the tasks nor at `num_committed_`;
  a batch root is linked before it is counted; a queue's index is replaced under readers.
* **Reuse.** Slots of a deque, nodes of a free list and of a stack, blocks of a queue,
  ids of threads and producers are used again while others may still look at them.
* **Partial failure.** Moodycamel handles failing allocations and throwing constructors
  in the middle of an operation, and parlay's sorts leave raw memory between steps.
* **Shutdown.** Clients look at `working_` only after taking a query failed, which it
  also does on a queue that is not empty, because of the counts of other clients;
  parlay's workers must not sleep through the end.

Nothing is persisted and nothing is sent over a network, so there are no crashes and no
lost messages. The timeouts there are (the two seconds of `atomic_wait`, the timed waits
of the semaphore) are actions. `PROJECT.json` lists the hazards by line.

## 2. The modules

```
Treap -- EXTENDS --> Sequential ---- implements ----------> VersionedMap
   \---- EXTENDS --> Scheduler  ---- implements (proved) -----^
   \---- EXTENDS --> TreapBuild (makes what Treap states)
                        Scheduler conjoins the actions of Conveyor
Treap <-- EXTENDS -- TreapProofs <-- EXTENDS -- SchedulerProofs -- EXTENDS --> Scheduler
Pipeline --- implements (proved) ---> Conveyor
QueryProcessor <-- EXTENDS -- Sequential, Batch, Contreap    PamTree (what Batch keeps per key)
Ycsbc -- EXTENDS --> Driver

WorkStealingDeque --- implements (proved) ---> JobDeque, on which ForkJoin runs; ParallelFor
HazptrStack --------- implements ---> LifoStack, the stacks of BlockAllocator; PoolAllocator
AtomicWait   ThreadSpecific   HashTable   ParlaySequence
ParallelSort   CountSort, on whose promise IntegerSort and SampleSort stand

ExplicitProducer   ImplicitProducer   ProducerHash   ConcurrentQueue   QueueLifetime
FreeList   BlockPool   LightweightSemaphore --- implements (proved) ---> Semaphore, on
                                                               which BlockingQueue runs
```

A variable has the name of the field it stands for where TLA+ allows it; `pc` and `thread`
hold where a thread is, and its locals. Variables that only record history (`log`,
`sent`, `got`, `wanted`, `model`) are said to be so where they are declared.

### Contreap

**Conveyor** is the promise of the pipeline: tasks pass the stations in order and
none is overtaken. **Pipeline** is the token protocol, one atomic access per action:
`take` (before `fetch_sub`), `wait` (about to compare in `atomic_wait`), `asleep`, `work`,
`notify` (between `fetch_add` and `notify_one`). Counters wrap at `TokenMax`.

**Treap** has the sequential algorithms as operators on a heap. What one call does is an
operator of its own (`SplitCall`, `InsertCall`, `ConcatCall`, `DeleteCall`), the recursive function is
its fixed point, and `new` is the set of nodes a call allocates. A version copies a
key's node at most once, so the pair `<<ver, key>>` is the pointer. Priorities are
the constant `Hash`, assumed injective: `aes_hash` runs two AES rounds on the key
written twice, a bijection on the half it returns.
**TreapBuild** runs `build_parallel` itself: the forked halves of `build_`, `merge_` and
`augment_parallel` are frames on one heap that interleave, and the result is the tree
that `Treap` states.

**VersionedMap** is the promise of a backend (`db/include/interface.hpp`): a log of
issued transactions, and versions, each committed after its predecessor and the replay of
the log up to it. **Sequential** is the baseline. An operation is three actions: the version
counter is advanced, then the root is stored, then its sums are made or the query is
pushed. **Scheduler** is the
concurrent treap: master, pipes, boarder, workers, collector and `get_snapshot`. The
hand-over of tasks is Conveyor's, conjoined with the tree work of each station.

**QueryProcessor** is the pool of clients; a query is its number, the queue with its
single producer token a sequence. Taking a query is `ExplicitProducer::dequeue` one access
at a time: tail, overcommit, optimistic count, the increment, the tail again, and then the
claim or the overcommit. The two counts only grow and only their difference matters, so
the model has the difference: `Counted` are the clients between their increment and what
follows it, and `back` is what was given back since a client loaded the overcommit. Blocks
and elements are the business of ExplicitProducer. The three backends extend this module: their
modifier conjoins its own steps with `Start`, `Push`, `Stop` and `Join`, and their clients
replace `Process` by what the backend's function does between taking a query and answering it.

**Contreap** has what the backend sees of the scheduler (tasks issued, fetched, done; blocks
published): what a query waits for and what `Close` waits for. In **Sequential** the clients
read the roots while the modifier makes the next version. Both take the counter of the node that
`find` returns; when that is the null pointer the program ends (`crashed`).

**Batch** is the batching backend; `Link` and `Publish` are the two halves of `do_update_` that
a client can tell apart, a turn of a client's loop over its cursor is an action, and `Close` flushes,
then stops the clients, then joins them. A tree
is the values it stores for each key. **PamTree** has the trees themselves: temporaries with
destructive splits, path copying merge and subtraction, `vstat`, release. A delete removes
*every* occurrence of its key (`copy_subtract`), unlike in the treap backends.

**Ycsbc** and **Driver** are the chain from a workload description over the
generator's clients (`CoreWorkload` is part of Ycsbc) and the one export file to the transactions the backend sees. A
random draw is a choice among the values the generator may return.

### parlay

**WorkStealingDeque** has one atomic access per action, with the age word's tag modulo
`TagMod`. **ForkJoin** runs a binary tree of `pardo` calls: workers steal, work while
they wait at a join, fall asleep and are woken, and leave at shutdown. **ParallelFor** is the
loop with its timing run, uneven halving and `blocked_for`. **AtomicWait** has the three
strategies of the file and polling, chosen in `Init`. **ThreadSpecific** has the ids
and chunks. **HazptrStack** has announcements, retirement and amortised clean-up,
with addresses that are reused at once. **BlockAllocator** and **PoolAllocator** have the
local lists, buckets, headers and statistics. **HashTable** has the phases with reads and
exchanges of a cell as steps. **ParallelSort** (quicksort, merge sort, bucket sort), **CountSort**,
**IntegerSort** and **SampleSort** have tasks on ranges of arrays whose cells hold an object or none,
so that relocation is modelled by what it does. **ParlaySequence** turns a public operation into
the list of the steps it takes on the storage.

### moodycamel

**ExplicitProducer** and **ImplicitProducer** are the two kinds of sub-queue, with their
blocks, indices, wrapped counters, bulk calls, failing memory and throwing constructors;
consumers read tail, counts and index in separate steps. **ProducerHash** is the lock-free
table from threads to producers with growth and thread exit. **ConcurrentQueue** is
the list of producers with the ways of dequeueing across them, a producer being a FIFO.
**QueueLifetime** has construction, swap, moves and destruction of queues and tokens.
**FreeList** and **BlockPool** supply the blocks. **LightweightSemaphore** stands in
front of an external kernel semaphore, and **BlockingQueue** uses **Semaphore** in its place.

### Atomicity

* A step of a task in Scheduler (`update_`, `execute_one_step_`, `execute_to_complete_`) is one
  action. It writes the task's context, fresh nodes, and the children of its own
  `t_cur`; another task reads that node only after the hand-over or the later stage,
  which come after the step. A wait inside a step is for `num_committed_`, which only
  grows, so the action simply requires it. `work_update_` stores the stage and then loads
  `num_committed_`; these are one action (`Load`), since only tasks of higher versions read the
  stage and what they do does not touch what `Load` reads.
* `augment`, which reads without waiting for anybody, is one action for each version. The
  code is finer than that, so an interleaving *inside* `augment` is not covered; the runs
  `aug_is_sum` and `snapshot_complete` find a violation without it.
* `cached_submit` only saves reads of a counter that grows and is left out.
* In the lock-free modules a shared atomic access is an action. A load and the successful
  compare-and-swap behind it are one where a failed attempt only repeats the load, and steps on
  memory that no other thread can reach at that time are joined with the access before
  them; the modules say where.
* The relaxed parts of the C++ memory model are not modelled: executions are
  interleavings.

## 3. The runs

Each question is about one module, and most modules are small machines of their own. Five
runs therefore check several of them: `MCBackends`, `MCParlayThreads`, `MCParlayData` and
`MCMoodycamel` pick one of `Parts` in the initial state and then take the steps of that module
only, on its instance with the constants given there. The variables `x1, x2, ...` are those of
the module in the order of its declaration, and `part = "p" => ...` says for which
part a property is stated. One component of each, about which theorems are proved, is extended
instead (QueryProcessor, WorkStealingDeque, ThreadSpecific and LightweightSemaphore), so that the
run checks the very properties that the theorems state; its variables stay at their initial values in the
other parts. The parts never interact: a run of many parts is many runs. Where modules do interact (Scheduler with Conveyor, Contreap, Driver, BlockingQueue), it
is a module that composes them.

The properties of a run are named for what they are about. In the runs of many parts, and in
`scheduler`, each is the conjunction of properties that the modules of the parts define and
comment (for example, `QueriesAnswered` has `EachQueryOnce` and `ClientsInOrder` of
QueryProcessor, `RightBatch` of Batch, `AnsweredWhenDone` of Contreap); this text uses the
modules' names where it is about one module.

| run | parts and instances | shows |
|---|---|---|
| `pipeline` | 3 tasks, 3 pipes, 3-bit counters, fair | `TokenAccounting`, `OrderedHandoff`, `NoLostWakeup`, `SubmittedExact`; every task arrives (`AllBoarded`); Conveyor is implemented |
| `scheduler` | 1 pipe, 2 workers, 3 tasks, 7 workloads, 6 keys, fair | a task is in one thread's hands and copies finished nodes only (`StepsReadFinishedNodes`); what is committed is done, closed and a treap (`CommittedTreaps`); VersionedMap is implemented; `process()` returns (`Termination`) |
| `scheduler_one_worker` | 1 pipe, 1 worker, 4 tasks, blocks of 2, 81 workloads | `SnapshotComplete`, `SnapshotAnswers`, `SnapshotsAvailable`: with one worker snapshots are complete, right, and always available |
| `backends` | `sequential`, `scheduler_pipes` (2 pipes, 2 workers) | `ImplementsVersionedMap`; `VersionsAreTreaps`; `QueriesAnswered`: queries, which trust the cached sums, are right |
| | `batch`, `pam_tree` | cursors stand on published roots, the right batch answers, its end rightly; published trees are never written (`VersionsKept`), temporaries are placed or released, the `vstat` short cut is exact |
| | `query_processor`, `contreap` | each query once and in order, and a claim finds one (`QueriesAnswered`); a client that is alone with the queue after `Stop` leaves nothing in it (`LastAloneDrains`); `Stop` and `Close` return, the batch backend's too (`CallsReturn`); a query is answered from a version that is done |
| | `treap_build` | forked halves stay apart, the result is the stated tree, nothing leaks (`NodesOwned`) |
| | `ycsbc`, `ycsbc_clients`, `driver` | the file says what it holds, keys exist, no two clients are in the database; the generator ends; the backend is issued what was generated and what it requires (`IssuedIsGenerated`) |
| `parlay_threads` | `deque`, `fork_join`, `parallel_for`, `atomic_wait`, `hash_update`, `sorts`, fair | `ImplementsJobDeque`; every job and index is run once, joins and slots are right (`WorkDoneOnce`); wake-ups, the awake count and shutdown (`NoLostWakeup`); what sorts and table hold, no two tasks touching a cell (`ResultsExact`); everything returns (`CallsReturn`) |
| `parlay_data` | `hash_delete`, `thread_ids`, `thread_storage`, `hazptr`, `hazptr_amortized`, `blocks`, `pools`, `pool_stats`, `count_sort`, `group_by_two`, `integer_sort`, `sample_sort`, `sample_cached`, `sequence`, `short_sequence` | LifoStack is implemented (`ImplementsStack`); no use after free, blocks and objects are neither lost nor doubled (`MemoryAccounted`); `UniqueIds`, `ElementsKept`; results are those of the plain definitions (`ResultsExact`); sequences behave as a vector of their elements (`HoldsAsVector`) |
| `moodycamel_queue` | `explicit`, `faults`, `implicit`, `producers`, `producers_failing`, `queue`, `recycling`, `lifetime`, `lifetime_default`, `pool`, `free_list` | elements come out once and in order with wrapping counters, failing memory and throwing constructors (`DequeuedOnceInOrder`); indices find what is unread (`UnreadIndexed`); one owner for each block and node, and destructors free exactly what is left (`BlocksOwnedOnce`); a thread finds its producer (`ProducersOwned`) |
| `moodycamel_waiting` | `semaphore`, `blocking`, `tokens`, `producers_live`, fair | `ImplementsSemaphore`; waiters are accounted for and tokens rotate (`TakenInTurn`); waiters are served, everything is taken, calls return (`EverythingTaken`) |
| `snapshot_complete`, `aug_is_sum`, `snapshots_available` | as `scheduler` (blocks of 1 in the last) | **violated**: see below |
| `moments_answered` | `batch` | **violated** |

### Bounds, and why they suffice

* `pipeline`: each pipe has a producer and a consumer that are pipes, every counter can be
  empty, at `~0`, and hold several tokens. The proofs cover all other values.
* Scheduler: the initial tree has the path 2, 6, 3, 4 and key 5 belongs inside
  it, so that with the root step done by the master and depth 1 by the pipe there are
  still several worker steps left, on nodes which the previous task is copying. The
  workloads let three tasks meet on that path: counters changed at its end, a node
  spliced in above uncommitted ones, deletions at the end, inside and at the root, and
  queries between. Two workers are the fewest that overtake each other.
* `sequential`: all sequences of three transactions, one of them at most a query, on absent, single and
  double keys. `batch`: four transactions, two of them at most queries, make up to three batches with
  changes of type, flushes of an empty buffer, and queries before, inside and after a batch. In
  these two the clients share nothing that they write
  except the queue, so one of them against the modifier is enough: what clients do to each other is
  in `query_processor` (two clients, four queries) and `contreap` (two clients, two queries).
  Two clients are enough for one to fail because of the other's count and for both to fail because
  of each other. `look.back` is then at most 1, since an attempt that begins while the other client is
  between its load of the overcommit and its increment has no count beside its own and is never
  given back; with three clients two of them could give back for ever, and the states would be infinitely many. `pam_tree`: every pair
  of batches of up to two keys on a full tree of five. `treap_build`: every file of up to four records.
* `deque`: an array of two slots that is reset and refilled under two thieves. `fork_join`: three
  workers and two levels of `pardo`, one of them conservative, so that a worker can
  steal below a join it waits at. `parallel_for`: all loops of up to 8 indices with several
  granularities. `atomic_wait`: two waiters, two notifiers, and one of another atomic of the
  same table entry.
* Hash table: three keys of one cluster that wraps round the end and one beside it. Hazard
  pointers: two threads, two or three addresses, clean-up at every and at every second
  retirement; an ABA needs a node that is popped, freed and pushed again, which two
  addresses give. `blocks`: lists of two, so that a list is given back and taken by the other
  thread. Sorts: thresholds made so small that five to nine elements recurse,
  go through several blocks and meet equal pivots; `RealSizes` evaluates the arithmetic of the
  code's own constants at its thresholds. Sequences of up to two elements (three with the short
  representation) meet every relation of length, capacity and position of an insertion.
* Producers: blocks of two elements, an index of two slots that must grow, counters
  modulo 16 that start just below the wrap. Table of producers: two slots, three
  threads of which two collide, so that it grows while they register and exit; with failing memory
  (`producers_failing`) two colliding threads. Free list and pool: as
  many threads as nodes or blocks, so that they meet at the last one.
* Every bound on the number of calls is a constant of the module (`MaxCalls`, `MaxBirths`,
  `Elements`, `MaxFrees`, ...). When it is reached a part may stop: `Stopped` stutters there,
  `MayStop` names those parts. In all other parts deadlock is an error.
* Symmetry is used in `parlay_data` and `moodycamel_queue`, between threads (or addresses, or queues)
  that the modules treat alike; neither run has a liveness property.

### Fairness

Weak fairness for each thread: every thread is an operating system thread in a loop
or inside a call, and nothing else can disable it for good. As only one part runs at a
time, `Runs(i)` is the `i`-th thread of whichever part runs. Not fair are the calls
nobody has to make: in `query_processor` `Push` and `Stop` (a query must be answered even if main never calls
`Stop`), new pushes to a deque, new calls of the hash table, births of threads. Main's loop
over a finite workload is fair in `batch` and `contreap`, since it ends with `Close`; in `batch` it may
end after any number of transactions. The
timeout of `atomic_wait` is fair because the kernel returns from a timed wait. Strong
fairness is assumed in two places, for waiters of the semaphore and consumers of the
blocking queue: a waiter that is overtaken each time it looks gets through in the end,
which the kernel's semaphore and a finite number of others give. Spin-waits are not
steps: they are the guards of the actions behind them.

### What happens to queries

The clients promise less than one may expect, and the properties say exactly how much.

* `dequeue` counts a client before it knows whether there is a query for it. Until that client gives its
  count back, another one may be told that there is nothing although there is (`concurrentqueue.h:1957-1992`;
  "likely but not guaranteed to be empty", `:1297`). Two clients that always count themselves at the same time
  can keep each other from the last query for ever, under any fairness of threads; so
  `AnsweredUnlessStopped`, a part of `CallsReturn`, supposes that in the end no count is given back.
* Queries may be left in the queue at `Stop`, and `Stop` returns nevertheless: when every client is at the test
  of `working_`; when the one inside its inner loop loaded the tail before the last push; when two clients fail because of
  each other. The query is in the queue for good, and no caller is told. What does hold is
  `LastAloneDrains`: a client that is answering a query, when `Stop` has been called and all others are at
  the test or gone, leaves only when the queue is empty.
* The backends inherit this. `Close` of the batch backend flushes the buffer, so that a client which waits
  for a version gets it and `Close` returns (`CloseReturns`); that all queries pushed before are
  answered is not true and not stated. What a query is answered, if it is, is in `QueriesAnswered`.

### What the violated properties show

* `SnapshotComplete`: a worker estimates and publishes its block as soon as *it* has
  been given a task at or past the block's end (`scheduler.hpp:256`), while other
  workers may still run tasks of the block. `get_snapshot` then returns an
  unfinished version. Besides, it looks for version `v` in block `v / block_size_`, although
  blocks start at version 1. With two workers `AnsweredWhenDone` of Contreap fails for the same reason.
* `AugIsSum`: for the same reason `augment` may meet nodes whose children are not set, and
  stores the partial sum, which is never recomputed (`augment.hpp:16`).
* `SnapshotsAvailable`: a worker publishes at most one block per task it fetched and one
  when it stops. One that was scheduled rarely stops too early, and
  `get_snapshot` spins for ever, as `Close` and the tests would.
* `MomentsAnswered`: a batch that inserts a key of the old tree keeps for it only the values
  that date from the batch (`copy_merge.hpp:59`), so a query for a version inside the
  batch and before that insertion finds 0; a key the batch deletes is missing in
  the whole batch. Only the ends of batches are answered rightly.

With a single worker, none of the first three occurs (`scheduler_one_worker`): it has finished
all earlier tasks when it estimates a block.

### Other disagreements, and the constants that leave them out

The modules contain the following behaviours too. The last column says which constant, or which
restriction of a property to a part, keeps the passing runs clear of them, so that the
rest can be checked; changing it makes TLC find them.

| where | what the code does | left out by |
|---|---|---|
| `sequential.hpp:35`, `contreap.hpp:37` | a point query reads `find(...)->val`, and `find` returns the null pointer for a key that the version does not have; the batch backend answers 0 for it | nothing: `Answer` ends the program (`crashed`), and what is stated about returning excepts it. The workload with deletions that is shipped (`ycsbc/workloads/workload_delete.spec`) has no reads |
| `query_processor.hpp:38` | queries may be left unanswered at `Stop` (see above) | nothing: `LastAloneDrains` says when they are not |
| `atomic_wait.h:277` | between a waiter's `waiters = 1` and its load of `version`, the notifier of another atomic of the entry may clear `waiters`; the wake-up is lost and only the timeout helps, which the comment takes for a hedge on aliasing | nothing: the timeout is part of the fairness |
| `concurrentqueue.h:2096` | a bulk enqueue that fails after it took empty blocks ahead has overwritten index entries which it does not restore, possibly those of unread items | `EnqueueSizes = {1}` where memory may fail |
| `concurrentqueue.h:1925` | if the very first constructor throws, the destructor takes the new block for a full one and destroys elements that were never made | `DestructorExact` is stated for `explicit`, not for `faults` |
| `concurrentqueue.h:3553` | the slot of a thread that exited stays marked while its producer is recycled uncounted, so more slots are in use than the count reserves | `SlotFree` asks for one free slot only |
| `concurrentqueue.h:1264` | a bulk dequeue that gets less than asked for adds to the quota without comparing, and may step over it | `MaxBulk = 1` in `tokens` |
| `ycsbc/db/export.hpp:101` | with `-threads 2` the second client's load phase is written as transactions | `FileWellFormed` is stated for one client |
| `ycsbc/core/client.h:104` | a read-modify-write writes two records where the head counts one | likewise (`rmw` is in `ycsbc_clients`) |
| `ycsbc/core/zipfian_generator.h:105` | the two most frequent results leave out the base: scans of length 0 | `ScanLengths` is stated for uniform lengths |
| `ycsbc/db/db_factory.hpp:26` | without `-db` the program ends in an exception instead of the default it announces | `uncaught` counts as an end |
| `block_allocator.h:185` | with `list_length = 1` the two thresholds of `free` coincide and a local list grows without bound | `list_length = 2` |
| `alloc.h:138`, `pool_allocator.h:189` | large blocks are counted with what was asked for and discounted with the bucket's size: the statistics drift | `pool_stats` has the allocator's own calls only, and `UsedExact` is about the used bytes |
| `hash_table.h:88` | an insertion that carries a bumped element on returns the result of that element | results are not part of the properties |
| `integer_sort.h:296` | at the bottom of the recursion objects may be relocated onto themselves | `trivially_relocatable = TRUE` |
| `integer_sort.h:381` | `get_counts` returns counts where its comment promises `num_buckets+1` offsets | `CountsExact` states counts |
| `sequence.h:286` | inserting nothing before the first element may free the buffer the returned iterator points into | `Counts = {2}` |
| `sequence.h:253` | `push_back` of an own element reads it after its buffer was freed | `Aliases = FALSE` |

Besides, `copy_split` of PAM leaves weak copies that `copy_merge` may copy again; the first
copies are then unreachable. Nothing of a published tree is affected.

## 4. The proofs

Eight modules hold theorems. TreapProofs (the algorithms) and SchedulerProofs are modules of
their own; the proofs of the other six stand at the end of the module they are about. A theorem holds for every value of the
constants that its assumption admits. Many of them state a property that a run checks on
a small instance (`PROJECT.json` says which), the others a conjunct of one. Each inductive invariant was
model-checked before it was proved, and each proof has one lemma for each action, with a step for each conjunct
that the action can disturb.

| module | theorems | assumption |
|---|---|---|
| `Pipeline` | `TypeCorrect`, `Accounting`, `Handoff`, `Wakeup`, `Submission`; `Refinement`: Conveyor is implemented | `NumTasks < TokenMax`: a 64-bit counter is never filled by tasks |
| `TreapProofs` | `InsertSpec`, `DeleteSpec`, `BuildSpec`: an insertion, a deletion, the bulk load return the treap of the contents there should be, of new nodes and untouched old ones; `AugmentSpec`, `EstimateSpec`: the sums stored are right, and a range query adds up its range | finitely many keys, injective `Hash`, the null pointer is no node |
| `SchedulerProofs` | `TasksExclusive`: a task is in one thread's hands; `DoneStays`: its context and root never change once it is done; `StepsReadFinished` (`StepsReadFinishedNodes`); `CommitsDone`, `StagesBelowMark`, `CommittedAreTreaps` (`CommittedTreaps`); `SchedulerRefines`: VersionedMap is implemented | those of TreapProofs, the constants' types; `num_pipes \in Nat` |
| | `OneWorkerComplete` (`SnapshotComplete`), `OneWorkerAvailable` (`SnapshotsAvailable`), `OneWorkerAnswers` (`SnapshotAnswers`) | besides, `num_workers = 1`, a hypothesis of the theorems |
| `QueryProcessor` | `QueriesOnce`: types, `EachQueryOnce`, `ClientsInOrder`, `ClaimsBacked`; `LastAloneClientDrains` (`LastAloneDrains`) | finitely many clients |
| `WorkStealingDeque` | `TypeCorrect`, `JobsConserved` (`NoJobLost`), `MissesStolen` (`MissMeansStolen`); `DequeRefines`: JobDeque is implemented | `NoWrap`: fewer jobs than tags |
| `LightweightSemaphore` | `TypeCorrect`, `AccountKept` (`WaitersAccounted`); `SemaphoreRefines`: Semaphore is implemented | finitely many threads, positive counts |
| `ThreadSpecific` | `IdsUnique` (`UniqueIds`), `ElementsStay` (`ElementsKept`) | `ChunkSize` is positive |
| `FreeList` | `TypeCorrect`, `NodesExclusive` (`OneHolder`), `NoABA` (`NextStillValid`, `TakenCleanly`) | finitely many threads and nodes |

The assumptions are named and stand in the modules; TLC evaluates them for its instances, except
the two inequalities. `NoWrap` is needed: with a tag that comes round while a thief is
between its load and its compare-and-swap, the deque returns a job twice. The tag has 32 bits
and advances once per reset, and each reset has a push of its own. That `num_pipes`
(the least `k` with `n*n <= 2^k`) exists is arithmetic by induction, which is assumed. The types of the
constants (`SchedulerAssumption` and the like) are what the constructor is given.

Why the invariants are what they are:

* **Pipeline**: `IInv == TypeOK /\ TokenAccounting /\ SubmittedExact /\ NoLostWakeup`. `OrderedHandoff` alone is
  not inductive: that a pipe leaving `atomic_wait` has its task depends on the *value* of
  the counter. `TokenAccounting` gives that value: the tasks handed over less those taken
  or, if one too many was taken, `~0` with the pipe waiting. The last counter needs the
  boarder's sum (`SubmittedExact`) to stay below `TokenMax`. For the
  refinement, `MasterPush`, `PipePass` and `BoarderStore` are the steps of Conveyor and all
  others leave it unchanged.
* **Treap algorithms**: a treap is *canonical*: which node is at the root of the keys `S` is decided by the
  priorities alone. So `Holds(D, cs, t, c, S)` says of a pointer `t`, without recursion, that it is null if `c` has
  no key in `S`, or else the node of the key of highest priority there, of a version that has
  the same counters `cs` below that key; and `NodeIs` says the same of the children of a
  node. Every version shares nodes with others, and no reachability is needed. Each
  recursive function has two lemmas: `...Returns` unfolds it (a child has a lower priority, so that
  the recursion is well-founded), and `...Spec` says what it returns, by induction on a bound of
  the priorities. Such an induction is over a *set* of naturals (`SetInduction`), which
  does not need an operator as a parameter. Sums rest on `SumTake`: the counters of a set add up to
  that of one key and those of the rest, from which a sum splits at the key of a root and at
  the two ends of a range. `augment` stops where it finds a sum and `range_estimate` uses one for a
  whole subtree; both are right if a node with a sum has the right one and children with
  sums (`SumRight`).
* **Scheduler**: `FullInv == IInv /\ CommitInv /\ TreeNow /\ DepthInv`. `IInv` has the order of the
  stations (`StationsInv`), the one place of a fetched task (`FetchedInv`) and what a
  worker holds (`RunningInv`), hence tasks are exclusive and done tasks stay. `CommitInv` says
  that what is committed is done. `TreeNow` relates the heap to the replayed contents
  `Expected[v]`: every node holds what its *own* version is to hold below its key, every root what its
  version is to hold, and every task in between knows which subtree its dependency
  is to leave under its current node. A node is *open* for the task that has still to set its
  children. `DepthInv` says that a task that somebody may step next is less deep than every
  earlier task that is not finished; the depth of a node is the number of its ancestors, that is
  of keys of higher priority not separated from it; pipe `i` works at depth `i` and a worker's
  stage counts depths from there. Now a step copies the node of an earlier version which
  stands on the same path in both versions, hence equally deep, and so no earlier
  task has it open: this is `StepsReadFinishedNodes`, and with it `TreeNow` is preserved. A
  depth is below the number of keys, so no stage comes near `STAGE_DONE`. VersionedMap follows
  with `versions` mapped to the contents of the committed roots.
* **Scheduler with one worker** (`BlocksInv`): it works on tasks in their order, so all up to `Completed` are
  done, and it turns to its next block exactly when its end is reached. A stored sum is never
  reset, so it must not be stored too early: `SumsInv` says that a sum is right and stands in a node of a
  version that is done. Only `Estimate` stores one, for a version that is done with all before it; all other
  steps are `Quiet`: they give new nodes no sum and link only nodes of the version they are
  making, which has none. `SummedInv` says which versions have sums: those of the
  blocks that are published and, while a block is estimated, the part from its end down that
  is behind. With several workers the versions shared with other blocks need not be done, and
  the property fails (section 3).
* **QueryProcessor**: the queue is always a run of consecutive numbers (`QueueInv`), so what has
  been given out is a prefix and each client's numbers grow, provided that a claim never meets an
  empty queue. `ClaimsBacked` says so and is not inductive: a client that has counted itself
  decides later, by a tail nobody knows yet. `BackedInv` says it for every tail `T` from the present one
  on: the queries taken, the clients that may claim, and those that a tail of `T` would let
  through are together at most `T`. A client that counts itself gets a number that is at least
  the sum of the first two and those counted before it, so it adds one only to the `T` above that number.
  For `LastAloneDrains` the invariant follows one client from the moment it is alone (`AloneInv`): the
  others stay outside, nothing is pushed, and so what it loads in turn stays what the queue has; it is
  told that there is nothing only when there is nothing.
* **WorkStealingDeque**: the slots from `top` to below the *published* bottom are live; `OwnerInv` says
  what the owner knows between its accesses, `ThiefInv` that a thief whose age is still
  current has read the job at the top, `TagInv` that an age once replaced never comes back.
* **LightweightSemaphore**: `WaitersAccounted` with the types is inductive; the work is in
  the cardinalities of the sets of waiters that a step moves from one stage to another.
* **ThreadSpecific**: free ids form a list that does not share (`ListInv`), and what is popped
  under the mutex is still what its holder read (`HolderInv`); for the chunks, that who builds
  one looked under the mutex.
* **FreeList**: which nodes are on the list is not a variable and what can be reached from
  the head is recursive. The invariant says instead that there *is* a set `L`, closed under next
  pointers that differ, none of which leads to the head; a pop takes the head out of `L`, a
  push puts a node in. The count of a node is the number of threads referring to it,
  plus one if it is in `L`, just taken, or about to be put in (`RefsInv`), and the bit is set exactly
  when nobody holds the node other than to add it (`MarkInv`). Hence a next pointer is
  written only when nobody refers to the node, and there is no ABA.

Only model-checked, and why:

* every liveness property, and `ENABLED`: the prover does not handle fairness;
* snapshots with several workers, of which the properties are violated (section 3);
* Sequential (`VersionsAreTreaps` and its refinement), which has no concurrency: it calls the very
  `search_insert` and `search_delete` that InsertSpec and DeleteSpec are about;
* what recursive definitions compute elsewhere: sorts, probing, `build_parallel`'s forked form, PAM's
  trees, and that a free list loses no node (`EachNodeOnce` beyond `OneHolder`). It would take
  lemmas like those of TreapProofs for each function;
* `NoLostWakeup` of AtomicWait: it is not true of every value of the constants, since of several
  waiters of one atomic whose notifiers all call `notify_one` some may be left to the timeout;
* the queue's producers and tables, HazptrStack and the allocators: no proofs yet.

## 5. Not modelled, and the plan

* `lib/parlay/primitives.h`, `range.h`, `slice.h`, `delayed*`, `io.h`, `random.h`, `sequence_ops.h` and the
  string conversions: templates without state of their own over the scheduler, sequences and
  sorts that are modelled. Contreap calls none of them. What they compute for every
  input is a matter of unit tests, not of interleavings.
* Comparison, hashing and element access of `parlay::sequence`, the constructors of `slice`: they
  change nothing.
* The rounds of AES in `aes_hash.hpp`: bit-level cryptography; `Hash` is any injection.
* Logging, timing, printing, and the text of the command line (options are records).
* The tests in `test/`: they are callers of the modelled operations.
* The branch of `block_allocator.h:211-216`, which a task reaches only if it changes its thread
  inside a call, which parlay's own scheduler never does.
* Memory orders weaker than sequential consistency; `dequeue` uses relaxed loads, which may return older
  counts than those of an interleaving.

What is left to prove, in this order: HazptrStack (`NoUseAfterFree`: an announced node is not
freed; then LifoStack is implemented), which needs a set of stacked nodes as FreeList does;
BlockPool (`BlockToOne`, `LastResort`, and `IndexBounded` by counting the threads between the two
steps); and ExplicitProducer (`DequeuedOnceInOrder`) for counters that do not wrap.
