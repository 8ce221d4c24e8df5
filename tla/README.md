# TLA+ models of ListDB

These modules model the concurrency protocol of the ListDB engine (`src/src`, `src/include`).
The engine is a key-value store on DRAM and persistent memory. Writes land in a DRAM MemTable.
Full MemTables are flushed into level-0 PmemTables and then merged into the lower persistent levels.
A scheduler thread and a pool of workers run the flushes and merges.

## The system

Every key belongs to one shard. Each shard has the following parts:

- **The current MemTable** (`mem_[s].table`). It is guarded by `mem_[s].mu` for rotation only. Writers reserve space with `fetch_add_size` and add to it lock-free.
- **Two generation chains** (`nbr_stack`, newest at the head):
  - `mem_[s].table_list` holds the immutable MemTables.
  - `level_[s][0].table_list` holds the level-0 PmemTables. A rotation creates one for every MemTable.
- **The write stall.** `get_writable_memtable` makes a writer wait on `ws_cv_[s]` while the MemTable chain is at `kMaxNumMemTables`.
- **The compaction jobs** (`brdb_compaction.cc`), in three kinds:
  - the flush (`enq_mem_compaction`): `merge_WAL` copies a MemTable into its L0 PmemTable;
  - the L0 merge (`enq_zipper_compaction`), into level 1;
  - the L1 merge (`enq_log_structured_compaction`), into level 2.
  Each job has a before-hook, a body and a callback. The callbacks mark tables, trim the chains and enqueue follow-up jobs.
- **The scheduler** (`jobs/job_manager.cc`, `jobs/worker.cc`):
  - one thread moves enqueued jobs into a priority queue, runs completion callbacks and dispatches jobs to idle workers;
  - the workers run a job's before-hook and body.
- **The read path** (`brdb_read.cc`). It searches, newest first, the current MemTable, the immutable chain, the L0 chain and then the lower levels.
- **The range scan** (`brdb::scan`, `brdb_read.cc`). It merges one iterator per shard over the shards' last-level tables.
- **The periodic compaction thread** (`brdb.cc`). It rotates the MemTable of every shard through `enq_manual_mem_compaction`.
- **`stabilize`** (`brdb.cc`). It steals the main manager's pending jobs, hands them to two backup managers and runs manual compactions level by level, waiting for one backup manager after each level, then for the other and finally for the main manager.

## Modules

| Module | Models | State and actions |
|---|---|---|
| `NbrStack` | `include/ds/nbr_stack.h` | A stack is a record `[head, next, n]`. `next` holds every node's next pointer. Unlinked nodes keep their pointers, as the `shared_ptr`s an iterator holds do. `PushFront` is `push_front`. `PopBacksIf` is `pop_backs_if`. `Chain` is an iterator's walk. |
| `JobManager` | `jobs/job_manager.cc`, `jobs/worker.cc` | `jq_`, `pq_`, `running_jobs_`, `tcq_`, each worker's queue and running task, `worker_tasks_`, `task_to_worker_`. The scheduler's loop body is three actions: `SchedCollect` (collect and count completions), `SchedCallback` (one callback) and `SchedDispatch` (sort `pq_` and pop `idle_cnt` jobs to the least-loaded worker; `worker_iter` is never advanced). The workers have `WorkerStart` (fetch, then the before-hook) and `WorkerFinish` (run, then `complete_task`). `StealPending` is `steal_pending_jobs`: it empties `pq_` and leaves `jq_` and running jobs to the manager. |
| `MemTier` | `brdb_table.cc`, `brdb_write.cc`, `brdb_compaction.cc`, `brdb_read.cc`, `brdb.cc` | One shard. The writers have one action per step of `get_writable_memtable`: pointer load, use-count increment, reserve, lock, stall check, sleep, rotate, enqueue, add. The compactor thread runs the manual rotation. The jobs conjoin their hooks to the `JobManager` actions through `INSTANCE ... WITH`. A reader walks `read_from_mem_casc`, `read_from_imms_casc` and the L0 loop of `read_from_pmem_level_casc` (`RL0Begin`, `RL0Step`) one table per step. |
| `MC_MemTier` | — | Model values for threads, keys and workers. |
| `Levels` | `brdb_compaction.cc`, `brdb_table.cc` (`get_writable_pmemtable`, `new_pmem_table`), `brdb_read.cc` (`get`, `read_from_pmem_level`) | The persistent levels of one shard, which MemTier abstracts as `lower`. L0 is a chain of PmemTables. Level 1 is a current table (`l1cur`), its immutables (`l1imms`), and per table `size_` (`l1size`, in L0 merges), `state_` and data. L2 is one table. The tier above is two actions: `Push0` (a rotation pushes the future PmemTable) and `Flush` (the flush callback fills it and enqueues its zipper job). The worker steps of a job are `HookStart`, `HookSpin` (both use-count spins), `HookLoad`, `HookFetch` (`fetch_add_size` and `cas_mark_full`), `HookRotate` and `JobRun`. The callbacks are `L0Callback` and `L1Callback`. The periodic thread's `enq_manual_pmem_compaction(s, 1)` is `CLoad`, `CMark` and `CRotate`. |
| `MC_Levels` | — | Model values for keys, workers and the periodic thread. |
| `LockFreeSkipList` | `ds/lockfree_skiplist.cc` (`insert`, `find_position`, `find`), `common.h` (`UINT64_cmp`), `memtable.h` (`MemTable::get`) | `nxt[x][l]` is `x->next[l]` for `head_` and every node. Each inserting thread has its `preds`, `succs` and the pred and level of `find_position`. `FindPos` is one load of `find_position`'s loop. `Cas0` stores the node's next pointers and does the level-0 CAS; on failure it restarts from `preds[kMaxHeight-1]` (`Refind`). `Up` is the CAS of one upper level, re-running `find_position` down to that level on failure. `FindStart`, `FindStep` and `FindReturn` are `find` and its use in `MemTable::get`. The history `lin` records the order of the level-0 CASes. |
| `SortedList` | — (the skip list's contract) | An ordered list that grows one node at a time, each node placed before the first node whose key is not smaller. `LockFreeSkipList` maps it to the level-0 chain from `head_` with `INSTANCE ... WITH`. |
| `MC_LockFreeSkipList` | — | Three nodes: key 1 of height 3, and two nodes of key 2 with heights 2 and 1. |
| `JobLifecycle` | `jobs/job_manager.cc` (`enqueue`, `stop`, `wait`, the break out of `job_process_loop`, `wrapup_running_jobs`, `stop_workers`), `jobs/worker.cc` (`stop`, the exit of `task_process_loop`) | One manager over its whole life. It instantiates `JobManager` for the running phase and adds `stop_` (`mstop`), each worker's `is_stop_` (`wstop`) and exit (`wdead`), the scheduler's phase (`lpc`: loop, wrapup, collect, done) and the client thread (`stpc` steps through `stop()`, `wpc` through `wait()`). `Submit` is `enqueue` with its `stop_` return. `SchedBreak`, `WrapCollect` and `StopWorkers` are the shutdown path of the scheduler; `StopWorker` and `StopFlag` are `stop()`; `WaitStart` and `WaitReturn` are `wait()`. The histories `enq` and `cbdone` record accepted jobs and run callbacks. |
| `MC_JobLifecycle` | — | Two root jobs, each with a follow-up its callback enqueues (a flush and its L0 merge), and two workers. |
| `Scan` | `brdb_read.cc` (`brdb::scan`), `pmemtable.cc` (`casc_pmem_table_iterator::seek`, `valid`, `node`) | One call of `scan` over the last-level table of every shard (`Tables`, derived from the stored keys, shard `k % kNumShards`). The call is a pure function of the tables and its arguments: `Seek` places one iterator per shard, `ItLess` is the comparator passed to `std::sort`, `InsertionSort` is libstdc++'s insertion sort, which `std::sort` runs for up to 16 elements, and `ScanLoop` is the `while (result->size() < len)` loop. The state is the stored keys and the arguments; `Next` only stutters. `ScanRef` is the result the spec promises. |
| `MC_Scan` | — | Keys 1..6. |
| `Stabilize` | `brdb.cc` (`stabilize`, `get_table_state`), `brdb_compaction.cc` (the three jobs' hooks and callbacks, `enq_manual_*_compaction`), `brdb_table.cc` (rotation in `get_writable_memtable` and `get_writable_pmemtable`), `jobs/job_manager.cc` (`steal_pending_jobs`) | One shard and three `JobManager` instances (`MAIN`, `BACK0`, `BACK1`, `INSTANCE ... WITH` renamed variables), composed: an action of a manager is that instance's action conjoined with the engine state its hook or callback changes. The writers put and rotate MemTables onto `job_mgr_`. The stabilize thread is a program counter `cpc` through `Steal`, `Distribute`, `EnqManual` (one manual compaction per step of the `l` loop), `WaitLow`, `FinalWait` and `MainWait`. A follow-up job is enqueued on the manager that ran its parent, as `job_raw->job_mgr()` does. Tables are counted, not filled: `mdata`, the chains `imms`, `l0`, `l1imms`, and `l1size` per L1 table. |
| `MC_Stabilize` | — | One worker for each manager. |

### How the state of `MemTier` corresponds to the code

- **Tables are named by their `seq_order`.** The first MemTable has seq 1 (`brdb.cc:40-42`). A MemTable and the L0 PmemTable created with it share the seq. A version is `<<seq, stamp>>`, compared as the skip list's comparator compares tags: the newest is found first.
- **`msize[t]`** is `MemTable::size_`. `mstate[t]` is `open`, `full` (`cas_mark_full`) or `persist` (`mark_persist`).
- **`whold[w]` and `wold[w]`** are the `mem` and `mem_old` `shared_ptr`s a writer holds inside `get_writable_memtable`. `cmut[c]` and `cold[c]` play the same role for the manual rotation.
- **`Refs(t)`** counts these holders. The flush hook `while (imm.use_count() > 3)` is the guard `Refs(t) = 0`, because the three expected references are the job's own. Readers take references only inside one atomic step of the model, so they never hold the hook. A writer in `wpc = "copy"` is not counted: `auto mem = mem_[s].table` (`brdb_table.cc:7`) is a plain `shared_ptr` copy, not `std::atomic_load`. It reads the pointer in `WStart` and raises the use count in `WCopyRef`, and a rotation, a flush and a trim may run in between.
- **`mdata[t]` and `pdata[t]`** are the newest version per key in MemTable `t` and in its L0 PmemTable.
- **`lower`** is the newest version per key merged below level 0. It records what has left L0; it is not what `get` reads there. A reader that finds nothing above level 1 stops in `below` with no result (`RLower`), and the first-hit search of the levels below is `Levels`' `LevelRead`. The L0 job's body (`zipper_compaction`) merges into it. The merge itself is in `lockfree_pskiplist`, which is not in this repository, so it is modelled by its effect: the newer tag wins.
- **The stall is a wait set.** The predicate check (`WStall`) and the sleep (`WSleep`) are separate steps, because `notify_all` in the flush callback does not hold `ws_mu_`. `WWake` is a wake-up after a notify.

## Runs

| Run | cfg | Expect | What it shows |
|---|---|---|---|
| `memtier_safety` | `MemTier_safety.cfg` | pass | Two writers and two workers, one key, two puts per writer. Three properties hold: `TypeOK`; `NoLostWrite` (every completed put stays reachable by the read path's order); `DramBound` (the chain never exceeds `kMaxNumMemTables`). |
| `memtier_read` | `MemTier_read.cfg` | pass | One writer, one reader and the periodic rotation. `ReadLatest` holds for the search above level 1: a hit in the current MemTable, the immutables or the L0 chain is no older than every put completed before the get began, and a get that leaves L0 without a hit does so only once those puts are merged below L0, although the chains rotate, flush and are trimmed under the reader's iterator. It says nothing of what level 1's first-hit search then returns, which `levels_stale` shows can be older. |
| `memtier_stall` | `MemTier_stall.cfg` | violation | `StallEnds` fails (lost wakeup). The writer checks the predicate and then the flush callback pops and notifies before the writer sleeps. The writer sleeps forever holding `mem_[s].mu`. |
| `memtier_flush` | `MemTier_flush.cfg` | violation | `FlushCompletes` fails (deadlock). W1 holds T1 while it waits for `mem_[s].mu`. W2 holds `mu` and is stalled for a flush. The flush of T1 spins on `use_count`. |
| `memtier_torn` | `MemTier_torn.cfg` | violation | `NoLostWrite` fails (lost put). The periodic thread is on and a MemTable holds two entries. The writer's copy of `mem_[s].table` loads table 1, which holds one put, but has not yet raised its use count. The periodic thread rotates table 1, the flush hook sees `use_count() <= 3`, the flush copies the table, and the callback trims it from both chains. The writer then takes its reference, `fetch_add_size` still fits, and the put lands in table 1, which no reader reaches. In the code the table may already be freed. In `memtier_safety` the same race is harmless, because a table rotated by size is over budget and the writer re-locks and reloads. |

| `levels_safety` | `Levels_safety.cfg` | pass | Two workers, the periodic thread, one key, two L0 tables, L1 tables of one merge each. `NoLostVersion` holds: every version a flush wrote stays reachable by `get`'s search order, although level 1 rotates under the hooks and the periodic thread marks tables full without a lock. `PipelineDrains` holds: every flushed L0 table leaves the chain and every full L1 table is merged into L2. |
| `levels_stale` | `Levels_stale.cfg` | violation | `LevelReadNewest` fails. The two L0 merges tie in priority, so the newer one may run first and fill L1 table X. The older one then rotates level 1 and is merged into the new table Y. `get` searches Y before X and returns the older version. |

| `skiplist` | `LockFreeSkipList.cfg` | pass | Three concurrent inserts and a concurrent finder. `Refines`: the level-0 list implements `SortedList`, so no insert is lost or misplaced, although other inserts change the list between `find_position` and the CAS. `FindNewest`: `find` returns a node of its key whenever one was published before it began, and never one older than those, with equal tags (one MemTable) and upper levels relinked around it. `InsertCompletes`: every insert returns. |
| `scan_short` | `Scan_short.cfg` | violation | `ScanComplete` fails in an initial state: three shards, key 1 stored, `scan(1, 1)`. Shards 0 and 2 have no key ≥ 1, so their iterators are invalid. The comparator says "less" whenever either iterator is invalid, so the insertion sort moves an invalid iterator to the front and the loop breaks with an empty result. Other states return keys out of order. |

| `joblife` | `JobLifecycle_stop.cfg` | pass | A client that may call `stop()` at any point, or never, and may first call `wait()`. `WaitSound`: `wait()` returns only after the callback of every job accepted before it, follow-ups included. `WorkerLoad`: `worker_tasks_` equals each worker's dispatched, uncollected tasks, through `stop()` and the wrapup loop. `JobsComplete`: while `stop()` has not begun, every accepted job's callback runs and every `wait()` returns, although `worker_iter` sends a batch to one worker. |
| `stabilize` | `Stabilize.cfg` | pass | Puts that rotate two MemTables, then `stabilize`. `StabilizeQuiesces`: when `stabilize` returns, no manager has a job queued, pending or running, and no MemTable, L0 table or full L1 table is left on a chain, although follow-ups land on whichever manager ran their parent. `StabilizeReturns`: every wait `stabilize` takes ends. 405,026 states, about 2 minutes. |
| `joblife_shutdown` | `JobLifecycle_shutdown.cfg` | violation | `ShutdownCompletes` fails. `stop()` stops both idle workers, which exit, before it sets `stop_`. Meanwhile the scheduler dispatches a follow-up job to an exited worker. After the break, `wrapup_running_jobs` waits on `tcq_` for a task no thread runs, so the join in `~brdb` hangs. |

### Levels: how the state corresponds to the code

- **Configuration.** `kNumPmemLevels = 3` and `kNumLogUnifiedLevels = 2` (the defaults), so L0→L1 is the zipper merge and L1→L2 the log-structured one. `kPmemTableSize[2] = -1`, so L2 never rotates. `kCompactionTaskSize = 1`, so each job is one task.
- **`L1Cap`** is `kNumMergesToLevel[1]`: the number of zipper hooks whose `write_size` fits an L1 table. `l1size` counts reservations and saturates at `L1Cap + 1`, because only "fits or not" is ever tested.
- **`L1Refs(x)`** counts the references that keep the log-structured hook (`use_count() > 3`) spinning: a hook's local `pmem`, a zipper job's `upper_` and the periodic thread's `mut`. The zipper hook's own spin (`> 4`) waits only for transient reader copies, which the model never holds across steps.
- **A version is the seq of the MemTable** it was written in, as in MemTier. Every merge keeps the higher tag.

### Bounds

- **Table seqs.** The bound `MaxTables` is never the reason a behaviour stops. Every rotation consumes a successful reservation, so there are at most `MaxPuts + 1` tables from writers, plus `MaxManual` from the compactor. `MaxTables` is set to at least that.
- **`Cap = 1`.** Each put fills a MemTable, so every put rotates. This makes rotation, the stall and the use-count hook race with every write. `memtier_torn` uses `Cap = 2`, the smallest budget at which the periodic thread can rotate a table that still accepts a put. With only size-based rotation, `Cap` does not matter to the torn copy: a rotated table is always over budget.
- **`DramTables`.** The value 2 or 3 makes the stall reachable with two or three puts. The value 5 disables it in the read run, so it is not dominated by the stall's known bugs.
- **Levels.** `L1Cap = 1` makes every zipper merge after the first rotate level 1, so rotation races every hook. `L0Max = 2` is the smallest bound at which two L0 merges can run out of order. `L1Max` is one more than the rotations two merges and two periodic iterations can cause. The safety run with `L0Max = 3` did not finish in the time a run is given.
- **LockFreeSkipList.** `kMaxHeight = 3` with a node as high as `head_`, so a retry can start from a node as `preds[kMaxHeight-1]`. Two nodes of one key, because nodes of one MemTable have equal tags. A fourth node took more than six minutes without adding a new kind of race.
- **Scan.** Three shards and keys 1..6: every set of stored keys, every begin key and every count up to 4 is an initial state, so every combination of empty, exhausted and live shard iterators is checked.
- **JobLifecycle.** Two workers, so a batch can leave one idle while the other holds it. Two roots with one follow-up each, so a callback enqueues while the other job runs and while `stop()` proceeds. Jobs are single-task, as every engine job is (`kCompactionTaskSize = 1`).
- **Stabilize.** `MaxSeq = 3`: two rotations by puts and a third by the manual mem compaction, so stolen jobs, jobs `job_mgr_` keeps and manual jobs coexist. `L1Cap = 1`, so every zipper hook after the first rotates level 1 and enqueues a log-structured job on its own manager. `MaxL1 = 7 = 1 + MaxSeq + 3` covers one rotation per zipper hook and one per pass of the level loop; `TypeOK` checks it is never exceeded. With `L1Cap = 1` the retry loop of `get_writable_pmemtable` changes nothing, so the zipper hook is one step. One worker per manager keeps the run near 2 minutes.
- **Two workers** in the safety run let a flush and an L0 merge run concurrently. One worker keeps the other runs small.

### Fairness

| Actor | Fairness | Justification |
|---|---|---|
| Writer steps | weak | Threads that can run do run. |
| `WLock` | strong | `std::mutex` is eventually granted to a thread that keeps asking while it is repeatedly free. |
| Reader steps, the compactor's enqueue, job hooks and bodies, scheduler steps | weak | They are threads that keep running. |
| The compactor's rotation | strong | It needs `mem_[s].mu`. |

In `Levels`, the workers, the scheduler and a periodic iteration that has started are weakly fair. The tier above is weakly fair only on `Flush`, because a flush hook can spin forever only while a writer holds its MemTable, which `memtier_flush` shows needs the write stall that `Levels` leaves out.


In `JobLifecycle`, the scheduler, the workers, a thread blocked in `wait()` and the engine's submission of the roots are weakly fair. Beginning `stop()` is not fair: nothing forces a client to delete the database. Once `stop()` has begun, its thread is weakly fair. The client thread calls `wait()` before `stop()`, as `stabilize` and the destructor run on one thread. `joblife` does not check deadlock, because the shutdown hang is a state with no step; a stuck state before `stop()` violates `JobsComplete` instead.

In `Stabilize`, every scheduler and every worker of the three managers is weakly fair, and so is the stabilize thread once it has begun: each is a thread that keeps running while it has work, and the waits use `wait_cv_`, which the schedulers notify after every iteration. Nothing forces the writers to finish or the client to call `stabilize`. Deadlock is checked: after `stabilize` returns, `Idle` stutters only when every manager is quiet.

In `LockFreeSkipList`, every inserting and finding thread is weakly fair. No locks are taken, and a failed CAS is caused by another thread's successful one, of which there are finitely many.

No symmetry is used because the liveness runs would be unsound with it.

## What is not modelled, and why

- **The write-ahead log, the value log and the pmem pools.** These are PMDK I/O. No recovery path reads the log back.
- **The skip list inside MemTier.** `MemTier` uses only the skip list's order (the newest version first); `LockFreeSkipList` checks that the concurrent `insert` and `find` deliver that order. `casc_skiplist_iterator::seek` and its shortcut bookkeeping, and the reserved shortcut list (disabled by `if (false && ...)`), are not modelled.
- **The skip list's lost index links.** After a failed upper-level CAS, `insert` (`lockfree_skiplist.cc:40`) relinks with the node's stale `next[l]` and drops a node linked there meanwhile. `IndexComplete` in `LockFreeSkipList.tla` states the opposite, and TLC finds it violated in 14 states. Search stays correct (`FindNewest`, `Refines`), so this costs only search length, and it has no run of its own.
- **`MemTier` and `Levels` are not composed.** `Levels` details the levels that `lower` summarises, with `get`'s first-hit search order, and takes MemTier's flush as its interface. It is not a refinement of `lower` for reads: `levels_stale` shows that the search can return an older version than `lower` holds. The composition would be too large for TLC.
- **The lookup cache** (`ht_add`, `ht_get` in `common.cc`). Nothing calls `ht_add`, so `ht_get` always misses and MemTier leaves it out; with no concurrent writers its seqlock never runs. One flaw is visible in the source for any future caller: when `compare_exchange_weak(prev_ver, 0)` fails because another `ht_add` holds the bucket, `prev_ver` is reloaded as 0, and the next exchange 0 → 0 succeeds, so two writers can be inside one bucket at once.
- **The `mem_size == 0` mode.** Its L0 table is never created (`brdb.cc:44`).
- **`wrapup_running_jobs`' erase.** It calls `iter++` on an iterator it just erased (`job_manager.cc:361`), which is undefined. `WrapCollect` takes the intended erase.
- **Scans beyond the merge.** `scan` with more than 16 shards (where `std::sort` uses introsort), a scan concurrent with log-structured compaction into the last level, and `db_iterator.cc` (compiled only under `BR_CASCADE`) are not modelled. The pskiplist iterator's `seek` and `next` are taken as "first key ≥" and "next key": `lockfree_pskiplist` is not in the repository.
- **`stabilize` beyond one shard.** `Stabilize` has one shard, so the shard loop of the manual compactions is one call. The writers' stall is left out, because the client's puts have ended before `stabilize`. A periodic compaction thread in a mode other than the default 0 is not composed with it.
- **Other parts.** The benchmarks and the YCSB client are outside the system that spec.md describes (command-line and benchmark harnesses, workload generators); their calls appear as the writer and reader threads. The performance monitor is formatting and sampling. `TaskManager` and `table_queue` are unused.
- **Stabilize's unfinished drain.** `StabilizeDrains` in `Stabilize.tla` says that when `stabilize` returns, no level-1 table is left non-empty. With `MaxSeq = 2` (other constants as in `Stabilize.cfg`), TLC finds it violated. `job_mgr_` has already dispatched a zipper merge when `stabilize` steals its empty `pq_`. That merge's hook reserves a fresh L1 table after the backups' last wait, and `job_mgr_->wait()` returns with it current and non-empty. No data is lost, and this has no run of its own.
- **The compactor's plain copy.** `auto mut = mem_[s].table` (`brdb_compaction.cc:187`) races `atomic_store` as the writer's does. It stays atomic in the model, because the compactor uses it only in a check under `mem_[s].mu`, and it takes its counted reference (`old`) under the lock.

## Plan

The modules are built in this order. Each builds on the one before.

1. `NbrStack`, `JobManager` and `MemTier`, with the runs above.
2. `Levels` (done): level-1 rotation in the zipper hook, the L1 to L2 job, `read_from_pmem_level` and the stale read of `levels_stale`.
3. A standalone `NbrStack` spec. Concurrent push, trim and iterators, refined to an abstract sequence with `INSTANCE ... WITH`. The non-atomic `head_ = nullptr` in `pop_backs_if` is modelled.
4. `JobLifecycle` (done): `stop`, `wait` and `wrapup_running_jobs`, the liveness of every enqueued job, and the shutdown hang of `joblife_shutdown`. `steal_pending_jobs` is in `Stabilize` (item 8).
5. `LockFreeSkipList` (done): concurrent `insert` and `find` over three levels, refined to `SortedList`.
6. `LookupCache`: dropped, because the cache is never filled (see above).
7. `Scan` (done): the merge of `brdb::scan` and its early stop of `scan_short`.
8. `Stabilize` (done): `stabilize` over three composed managers, and the unfinished drain (`StabilizeDrains`).
9. The torn `shared_ptr` copy of `brdb_table.cc:7` in `MemTier` (done), and its lost put in `memtier_torn`.
