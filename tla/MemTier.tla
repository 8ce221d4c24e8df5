------------------------------- MODULE MemTier -------------------------------
(***************************************************************************)
(* One shard of the engine (brdb): the current MemTable, the chain of     *)
(* immutable MemTables, the L0 chain of PmemTables, the writers of        *)
(* write_to_mem / get_writable_memtable with the DRAM write stall, the     *)
(* periodic manual rotation of enq_manual_mem_compaction, the flush job   *)
(* of enq_mem_compaction and the L0 merge job, all run by the JobManager, *)
(* and the readers of brdb::get.                                           *)
(*                                                                         *)
(* A table is named by its sequence order: memtable_seq_ hands them out   *)
(* in increasing order from 1, and the PmemTable that a MemTable flushes  *)
(* into (its future_pmem_table_) carries the same sequence order, so P(t) *)
(* is named t as well.  The levels below L0 are abstracted to one store   *)
(* `lower` that keeps the newest version of each key; Levels.tla refines  *)
(* it.  A version is <<seq, stamp>>: the tag of a skip-list node is its    *)
(* table's seq_order_, and among equal tags the node inserted last is     *)
(* found first; stamp is the global order of insertions.                  *)
(***************************************************************************)
EXTENDS Naturals, Sequences, FiniteSets, SequencesExt

CONSTANTS
    Writers,      \* client threads calling brdb::put
    Readers,      \* client threads calling brdb::get
    Compactors,   \* the periodic compaction thread ({} when disabled)
    Keys,
    Workers,      \* compaction workers of job_mgr_
    MaxTables,    \* bound on the MemTables ever created
    Cap,          \* kMemTableSize / kNumShards, in units of one kv_size
    DramTables,   \* kDRAMSizeTotal / kMemTableSize
    MaxPuts,      \* bound on puts per writer
    MaxGets,      \* bound on gets per reader
    MaxManual,    \* bound on iterations of periodic_compaction_loop
    None

Tables == 1..MaxTables
NoVer == <<0, 0>>
Jobs == {<<"mem", t>> : t \in Tables} \cup {<<"l0", t>> : t \in Tables}

VARIABLES
    cur, seqctr, imms, l0, msize, mstate, mdata, pdata, merged, lower,
    mu, waitSet, clock, lastDone,
    wpc, wkey, whold, wold, wputs,
    rpc, rkey, rlast, rpos, rres, rfloor, rgets,
    cpc, cmut, cold, cruns,
    jq, pq, running, tcq, wq, wrun, wtasks, towner, spc, finished, cbdue

engineVars == <<cur, seqctr, imms, l0, msize, mstate, mdata, pdata, merged, lower,
                mu, waitSet, clock, lastDone>>
writerVars == <<wpc, wkey, whold, wold, wputs>>
readerVars == <<rpc, rkey, rlast, rpos, rres, rfloor, rgets>>
compVars == <<cpc, cmut, cold, cruns>>

JM == INSTANCE JobManager WITH
        JobLevel <- [j \in Jobs |-> IF j[1] = "mem" THEN -1 ELSE 0],
        JobSeq   <- [j \in Jobs |-> IF j[1] = "mem" THEN j[2] ELSE 0],
        NoJob    <- None

NS == INSTANCE NbrStack WITH Ids <- Tables

jmVars == <<jq, pq, running, tcq, wq, wrun, wtasks, towner, spc, finished, cbdue>>
vars == <<engineVars, writerVars, readerVars, compVars, jmVars>>

(* Tag order of the skip lists: higher seq_order first, then later insert. *)
Newer(a, b) == a[1] > b[1] \/ (a[1] = b[1] /\ a[2] > b[2])
Newest(a, b) == IF Newer(b, a) THEN b ELSE a

(* shared_ptr copies of table t held by threads: writers' `mem`, the      *)
(* `mem_old` of a rotating writer until enq_mem_compaction returns, and   *)
(* the `mut` / `old` locals of enq_manual_mem_compaction.  The chain node *)
(* and the two closures of the flush job make up the 3 the hook allows.  *)
(* A writer in "copy" has loaded the pointer of its copy but not yet      *)
(* raised the use count.                                                  *)
Refs(t) ==
    Cardinality({w \in Writers : whold[w] = t /\ wpc[w] # "copy"})
  + Cardinality({w \in Writers : wold[w] = t})
  + Cardinality({c \in Compactors : cmut[c] = t}) + Cardinality({c \in Compactors : cold[c] = t})

(* The MemTable rotation shared by get_writable_memtable and              *)
(* enq_manual_mem_compaction: new table with the next seq_order, old one  *)
(* pushed on the immutables, its future PmemTable pushed on L0.           *)
Rotate(old) ==
    /\ seqctr =< MaxTables
    /\ cur' = seqctr
    /\ seqctr' = seqctr + 1
    /\ imms' = NS!PushFront(imms, old)
    /\ l0' = NS!PushFront(l0, old)

Init ==
    /\ cur = 1 /\ seqctr = 2
    /\ imms = NS!Empty /\ l0 = NS!Empty
    /\ msize = [t \in Tables |-> 0]
    /\ mstate = [t \in Tables |-> "open"]
    /\ mdata = [t \in Tables |-> [k \in Keys |-> NoVer]]
    /\ pdata = [t \in Tables |-> [k \in Keys |-> NoVer]]
    /\ merged = {}
    /\ lower = [k \in Keys |-> NoVer]
    /\ mu = None /\ waitSet = {} /\ clock = 1
    /\ lastDone = [k \in Keys |-> NoVer]
    /\ wpc = [w \in Writers |-> "idle"] /\ wkey = [w \in Writers |-> None]
    /\ whold = [w \in Writers |-> None] /\ wold = [w \in Writers |-> None]
    /\ wputs = [w \in Writers |-> 0]
    /\ rpc = [r \in Readers |-> "idle"] /\ rkey = [r \in Readers |-> None]
    /\ rlast = [r \in Readers |-> 0] /\ rpos = [r \in Readers |-> None]
    /\ rres = [r \in Readers |-> NoVer] /\ rfloor = [r \in Readers |-> NoVer]
    /\ rgets = [r \in Readers |-> 0]
    /\ cpc = [c \in Compactors |-> "idle"] /\ cmut = [c \in Compactors |-> None]
    /\ cold = [c \in Compactors |-> None] /\ cruns = [c \in Compactors |-> 0]
    /\ JM!JMInit

-----------------------------------------------------------------------------
(* Writers: brdb::put -> write_to_mem -> get_writable_memtable.            *)

(* put picks a key; `mem = mem_[s].table` copies the current table.  The *)
(* copy is a plain shared_ptr copy, not std::atomic_load, racing the      *)
(* atomic_store of a rotation: it loads the pointer here and raises the   *)
(* use count in WCopyRef, and a rotation, flush and trim may run between. *)
WStart(w) ==
    /\ wpc[w] = "idle" /\ wputs[w] < MaxPuts
    /\ \E k \in Keys : wkey' = [wkey EXCEPT ![w] = k]
    /\ whold' = [whold EXCEPT ![w] = cur]
    /\ wpc' = [wpc EXCEPT ![w] = "copy"]
    /\ UNCHANGED <<engineVars, wold, wputs, readerVars, compVars, jmVars>>

(* The copy takes its reference on the table it loaded, whether or not   *)
(* that table is still current (a freed one is undefined behaviour; the  *)
(* model lets the writer go on with it).                                 *)
WCopyRef(w) ==
    /\ wpc[w] = "copy"
    /\ wpc' = [wpc EXCEPT ![w] = "fetch"]
    /\ UNCHANGED <<engineVars, wkey, whold, wold, wputs, readerVars, compVars, jmVars>>

(* fetch_add_size reserves one kv_size; over budget -> take the lock.     *)
WFetch(w) ==
    /\ wpc[w] = "fetch"
    /\ LET t == whold[w] IN
       /\ msize' = [msize EXCEPT ![t] = @ + 1]
       /\ wpc' = [wpc EXCEPT ![w] = IF msize[t] + 1 > Cap THEN "lock" ELSE "add"]
    /\ UNCHANGED <<cur, seqctr, imms, l0, mstate, mdata, pdata, merged, lower, mu,
                   waitSet, clock, lastDone, wkey, whold, wold, wputs,
                   readerVars, compVars, jmVars>>

(* write_log, then mem->add: the node gets the table's tag; put returns   *)
(* and `mem` is released.                                                 *)
WAdd(w) ==
    /\ wpc[w] = "add"
    /\ LET t == whold[w]
           k == wkey[w]
           v == <<t, clock>>
       IN /\ mdata' = [mdata EXCEPT ![t][k] = v]
          /\ lastDone' = [lastDone EXCEPT ![k] = Newest(@, v)]
    /\ clock' = clock + 1
    /\ whold' = [whold EXCEPT ![w] = None]
    /\ wputs' = [wputs EXCEPT ![w] = @ + 1]
    /\ wpc' = [wpc EXCEPT ![w] = "idle"]
    /\ UNCHANGED <<cur, seqctr, imms, l0, msize, mstate, pdata, merged, lower, mu,
                   waitSet, wkey, wold, readerVars, compVars, jmVars>>

(* Variant of WLock with the DRAM test written `>` for `>=`.             *)
WLockStallOffByOne(w) ==
    /\ wpc[w] = "lock" /\ mu = None
    /\ IF whold[w] = cur
       THEN /\ mu' = w
            /\ wpc' = [wpc EXCEPT ![w] = IF NS!Size(imms) + 1 > DramTables THEN "stall" ELSE "rotate"]
            /\ UNCHANGED whold
       ELSE /\ whold' = [whold EXCEPT ![w] = cur]
            /\ wpc' = [wpc EXCEPT ![w] = "fetch"]
            /\ UNCHANGED mu
    /\ UNCHANGED <<cur, seqctr, imms, l0, msize, mstate, mdata, pdata, merged, lower,
                   waitSet, clock, lastDone, wkey, wold, wputs, readerVars, compVars, jmVars>>

(* Lock mem_[s].mu and re-check that `mem` is still the current table.    *)
(* If not, reload it and retry; if so, check the DRAM budget.             *)
WLock(w) ==
    /\ wpc[w] = "lock" /\ mu = None
    /\ IF whold[w] = cur
       THEN /\ mu' = w
            /\ wpc' = [wpc EXCEPT ![w] = IF NS!Size(imms) + 1 >= DramTables THEN "stall" ELSE "rotate"]
            /\ UNCHANGED whold
       ELSE /\ whold' = [whold EXCEPT ![w] = cur]
            /\ wpc' = [wpc EXCEPT ![w] = "fetch"]
            /\ UNCHANGED mu
    /\ UNCHANGED <<cur, seqctr, imms, l0, msize, mstate, mdata, pdata, merged, lower,
                   waitSet, clock, lastDone, wkey, wold, wputs, readerVars, compVars, jmVars>>

(* ws_cv_[s].wait(ws_lk, pred): the predicate, evaluated under ws_mu_[s]   *)
(* while mem_[s].mu is still held.                                        *)
WStall(w) ==
    /\ wpc[w] = "stall"
    /\ wpc' = [wpc EXCEPT ![w] = IF NS!Size(imms) + 1 < DramTables THEN "rotate" ELSE "sleep"]
    /\ UNCHANGED <<engineVars, wkey, whold, wold, wputs, readerVars, compVars, jmVars>>

(* The predicate was false: block on ws_cv_[s], releasing ws_mu_[s].  The *)
(* notifier does not hold ws_mu_[s], so its notify can fall between the   *)
(* predicate and this step.                                               *)
WSleep(w) ==
    /\ wpc[w] = "sleep"
    /\ waitSet' = waitSet \cup {w}
    /\ wpc' = [wpc EXCEPT ![w] = "waiting"]
    /\ UNCHANGED <<cur, seqctr, imms, l0, msize, mstate, mdata, pdata, merged, lower,
                   mu, clock, lastDone, wkey, whold, wold, wputs, readerVars, compVars, jmVars>>

(* Woken by notify_all: re-acquire ws_mu_[s] and re-evaluate.             *)
WWake(w) ==
    /\ wpc[w] = "waiting" /\ w \notin waitSet
    /\ wpc' = [wpc EXCEPT ![w] = "stall"]
    /\ UNCHANGED <<engineVars, wkey, whold, wold, wputs, readerVars, compVars, jmVars>>

(* New MemTable, push mem_old and its future PmemTable, publish, unlock.  *)
(* `mem` now names the new table; mem_old lives until the flush job is    *)
(* enqueued.                                                              *)
WRotate(w) ==
    /\ wpc[w] = "rotate"
    /\ Rotate(whold[w])
    /\ whold' = [whold EXCEPT ![w] = seqctr]
    /\ wold' = [wold EXCEPT ![w] = whold[w]]
    /\ mu' = None
    /\ wpc' = [wpc EXCEPT ![w] = "enq"]
    /\ UNCHANGED <<msize, mstate, mdata, pdata, merged, lower, waitSet, clock, lastDone,
                   wkey, wputs, readerVars, compVars, jmVars>>

(* enq_mem_compaction(s, mem_old): enqueue the flush job, drop mem_old,   *)
(* `continue` with the new table.                                         *)
WEnq(w) ==
    /\ wpc[w] = "enq"
    /\ JM!Enqueue(<<"mem", wold[w]>>)
    /\ wold' = [wold EXCEPT ![w] = None]
    /\ wpc' = [wpc EXCEPT ![w] = "fetch"]
    /\ UNCHANGED <<engineVars, wkey, whold, wputs, readerVars, compVars>>

-----------------------------------------------------------------------------
(* The periodic compaction thread: enq_manual_compaction(s, -1).  The     *)
(* calls for levels >= 0 find no writable L0 table (level_[s][0].table is *)
(* never created) and the levels below L0 are abstracted, so they are     *)
(* not steps of this module.                                              *)

(* `mut = mem_[s].table`.                                                 *)
CLoad(c) ==
    /\ cpc[c] = "idle" /\ cruns[c] < MaxManual
    /\ cmut' = [cmut EXCEPT ![c] = cur]
    /\ cpc' = [cpc EXCEPT ![c] = "lock"]
    /\ UNCHANGED <<engineVars, writerVars, readerVars, cold, cruns, jmVars>>

(* Under mem_[s].mu: rotate if mut is still current, non-empty and wins   *)
(* cas_mark_full; there is no DRAM check on this path.                    *)
CLock(c) ==
    /\ cpc[c] = "lock" /\ mu = None
    /\ LET t == cmut[c] IN
       IF t = cur /\ msize[t] > 0 /\ mstate[t] = "open"
       THEN /\ Rotate(t)
            /\ mstate' = [mstate EXCEPT ![t] = "full"]
            /\ cmut' = [cmut EXCEPT ![c] = seqctr]
            /\ cold' = [cold EXCEPT ![c] = t]
            /\ cpc' = [cpc EXCEPT ![c] = "enq"]
            /\ UNCHANGED cruns
       ELSE /\ cmut' = [cmut EXCEPT ![c] = None]
            /\ cpc' = [cpc EXCEPT ![c] = "idle"]
            /\ cruns' = [cruns EXCEPT ![c] = @ + 1]
            /\ UNCHANGED <<cur, seqctr, imms, l0, mstate, cold>>
    /\ UNCHANGED <<msize, mdata, pdata, merged, lower, mu, waitSet, clock, lastDone,
                   writerVars, readerVars, jmVars>>

(* enq_mem_compaction(s, old), then the locals go out of scope.           *)
CEnq(c) ==
    /\ cpc[c] = "enq"
    /\ JM!Enqueue(<<"mem", cold[c]>>)
    /\ cmut' = [cmut EXCEPT ![c] = None]
    /\ cold' = [cold EXCEPT ![c] = None]
    /\ cruns' = [cruns EXCEPT ![c] = @ + 1]
    /\ cpc' = [cpc EXCEPT ![c] = "idle"]
    /\ UNCHANGED <<engineVars, writerVars, readerVars>>

-----------------------------------------------------------------------------
(* Compaction jobs run on the JobManager's threads.                        *)

(* Variant of JobBefore whose flush hook does not wait for use_count.    *)
JobBeforeNoSpin(k) ==
    /\ JM!WorkerStart(k)
    /\ UNCHANGED <<engineVars, writerVars, readerVars, compVars>>

(* Worker::task_process_loop pops a task and calls job->before().  The     *)
(* flush job's hook spins `while (imm.use_count() > 3)` until no thread   *)
(* but the chain and the job holds the table; the L0 merge job's hook      *)
(* spins on the PmemTable, which threads here never hold across steps,    *)
(* and then asks the abstracted level 1 for a writable table.             *)
JobBefore(k) ==
    /\ JM!WorkerStart(k)
    /\ LET j == Head(wq[k]) IN j[1] = "mem" => Refs(j[2]) = 0
    /\ UNCHANGED <<engineVars, writerVars, readerVars, compVars>>

(* task->run then complete_task: merge_WAL copies the MemTable into its   *)
(* future PmemTable; the L0 merge folds the PmemTable into the levels     *)
(* below, where the newest tag of a key wins.                             *)
JobRun(k) ==
    /\ JM!WorkerFinish(k)
    /\ LET j == wrun[k]
           t == j[2]
       IN IF j[1] = "mem"
          THEN /\ pdata' = [pdata EXCEPT ![t] = mdata[t]]
               /\ UNCHANGED lower
          ELSE /\ lower' = [key \in Keys |-> Newest(lower[key], pdata[t][key])]
               /\ UNCHANGED pdata
    /\ UNCHANGED <<cur, seqctr, imms, l0, msize, mstate, mdata, merged, mu, waitSet,
                   clock, lastDone, writerVars, readerVars, compVars>>

(* Flush callback: mark_persist, trim the persisted tail of the           *)
(* immutables, enqueue the L0 merge of the future PmemTable, notify_all   *)
(* ws_cv_[s] (without holding ws_mu_[s]).                                 *)
MemCallback(t) ==
    /\ JM!SchedCallback(<<"mem", t>>, <<<<"l0", t>>>>)
    /\ mstate' = [mstate EXCEPT ![t] = "persist"]
    /\ imms' = NS!PopBacksIf(imms, {u \in Tables : mstate'[u] = "persist"})
    /\ waitSet' = {}
    /\ UNCHANGED <<cur, seqctr, l0, msize, mdata, pdata, merged, lower, mu, clock,
                   lastDone, writerVars, readerVars, compVars>>

(* Zipper callback: mark_merged_down, trim the merged tail of L0.         *)
L0Callback(t) ==
    /\ JM!SchedCallback(<<"l0", t>>, <<>>)
    /\ merged' = merged \cup {t}
    /\ l0' = NS!PopBacksIf(l0, merged')
    /\ UNCHANGED <<cur, seqctr, imms, msize, mstate, mdata, pdata, lower, mu, waitSet,
                   clock, lastDone, writerVars, readerVars, compVars>>

SchedCollect ==
    /\ JM!SchedCollect
    /\ UNCHANGED <<engineVars, writerVars, readerVars, compVars>>

SchedDispatch ==
    /\ JM!SchedDispatch
    /\ UNCHANGED <<engineVars, writerVars, readerVars, compVars>>

-----------------------------------------------------------------------------
(* Readers: brdb::get.  ht_get always misses (nothing calls ht_add).       *)

Found(r, v) ==
    /\ rres' = [rres EXCEPT ![r] = v]
    /\ rpc' = [rpc EXCEPT ![r] = "done"]

(* read_from_mem_casc: copy mem_[s].table, t_seq_order_last = its seq,    *)
(* search it.                                                             *)
RStart(r) ==
    /\ rpc[r] = "idle" /\ rgets[r] < MaxGets
    /\ \E k \in Keys :
         /\ rkey' = [rkey EXCEPT ![r] = k]
         /\ rfloor' = [rfloor EXCEPT ![r] = lastDone[k]]
         /\ IF mdata[cur][k] # NoVer
            THEN Found(r, mdata[cur][k]) /\ UNCHANGED rlast
            ELSE /\ rlast' = [rlast EXCEPT ![r] = cur]
                 /\ rpc' = [rpc EXCEPT ![r] = "imms"]
                 /\ UNCHANGED rres
    /\ UNCHANGED <<engineVars, writerVars, rpos, rgets, compVars, jmVars>>

(* `if (empty()) return false`, then `begin()` loads head_ (the L0 chain  *)
(* of read_from_pmem_level_casc(0) the same way).                         *)
RBegin(r, st, from, to) ==
    /\ rpc[r] = from
    /\ rpos' = [rpos EXCEPT ![r] = IF NS!IsEmpty(st) THEN None ELSE st.head]
    /\ rpc' = [rpc EXCEPT ![r] = to]
    /\ UNCHANGED <<engineVars, writerVars, rkey, rlast, rres, rfloor, rgets, compVars, jmVars>>

(* Variant of RStep that leaves the chain (break) at the first table it  *)
(* would skip, instead of moving on (continue).                          *)
RStepBreak(r, st, data, at, after) ==
    /\ rpc[r] = at
    /\ IF rpos[r] = None \/ rpos[r] >= rlast[r]
       THEN rpc' = [rpc EXCEPT ![r] = after] /\ UNCHANGED <<rpos, rlast, rres>>
       ELSE LET t == rpos[r] IN
            IF data[t][rkey[r]] # NoVer
            THEN Found(r, data[t][rkey[r]]) /\ UNCHANGED <<rpos, rlast>>
            ELSE /\ rlast' = [rlast EXCEPT ![r] = t]
                 /\ rpos' = [rpos EXCEPT ![r] = st.next[t]]
                 /\ UNCHANGED <<rpc, rres>>
    /\ UNCHANGED <<engineVars, writerVars, rkey, rfloor, rgets, compVars, jmVars>>

(* One iteration of the loop: skip tables with seq_order >=               *)
(* t_seq_order_last, else search the table and record its seq; it.next()  *)
(* loads the node's next pointer as it is now.                            *)
RStep(r, st, data, at, after) ==
    /\ rpc[r] = at
    /\ IF rpos[r] = None
       THEN rpc' = [rpc EXCEPT ![r] = after] /\ UNCHANGED <<rpos, rlast, rres>>
       ELSE LET t == rpos[r] IN
            IF t >= rlast[r]
            THEN rpos' = [rpos EXCEPT ![r] = st.next[t]] /\ UNCHANGED <<rpc, rlast, rres>>
            ELSE IF data[t][rkey[r]] # NoVer
                 THEN Found(r, data[t][rkey[r]]) /\ UNCHANGED <<rpos, rlast>>
                 ELSE /\ rlast' = [rlast EXCEPT ![r] = t]
                      /\ rpos' = [rpos EXCEPT ![r] = st.next[t]]
                      /\ UNCHANGED <<rpc, rres>>
    /\ UNCHANGED <<engineVars, writerVars, rkey, rfloor, rgets, compVars, jmVars>>

(* No hit above level 1: get goes on to read_from_pmem_level for level 1 *)
(* and the last level.  Their first-hit search is Levels.tla's LevelRead; *)
(* here the get only leaves the tiers MemTier models, with no result.     *)
RLower(r) ==
    /\ rpc[r] = "lower"
    /\ rpc' = [rpc EXCEPT ![r] = "below"]
    /\ UNCHANGED <<engineVars, writerVars, rkey, rlast, rpos, rres, rfloor, rgets, compVars, jmVars>>

RReturn(r) ==
    /\ rpc[r] \in {"done", "below"}
    /\ rpc' = [rpc EXCEPT ![r] = "idle"]
    /\ rgets' = [rgets EXCEPT ![r] = @ + 1]
    /\ UNCHANGED <<engineVars, writerVars, rkey, rlast, rpos, rres, rfloor, compVars, jmVars>>

(* read_from_pmem_level_casc(s, 0): the same empty test, begin() and     *)
(* loop over the L0 chain, searching each PmemTable's pNodes.             *)
RL0Begin(r) == RBegin(r, l0, "l0", "l0it")

RL0Step(r) == RStep(r, l0, pdata, "l0it", "lower")

-----------------------------------------------------------------------------
(* Every thread has finished its bounded work and the pipeline is empty.  *)
Terminated ==
    /\ \A w \in Writers : wpc[w] = "idle" /\ wputs[w] = MaxPuts
    /\ \A r \in Readers : rpc[r] = "idle" /\ rgets[r] = MaxGets
    /\ \A c \in Compactors : cpc[c] = "idle" /\ cruns[c] = MaxManual
    /\ JM!Quiescent /\ tcq = <<>> /\ spc = "wait"

WriterStep(w) ==
    \/ WCopyRef(w) \/ WFetch(w) \/ WAdd(w) \/ WStall(w) \/ WSleep(w)
    \/ WWake(w) \/ WRotate(w) \/ WEnq(w)

ReaderStep(r) ==
    \/ RBegin(r, imms, "imms", "immsit") \/ RStep(r, imms, mdata, "immsit", "l0")
    \/ RL0Begin(r) \/ RL0Step(r)
    \/ RLower(r) \/ RReturn(r)

SchedStep ==
    \/ SchedCollect \/ SchedDispatch
    \/ \E t \in Tables : MemCallback(t) \/ L0Callback(t)

Next ==
    \/ \E w \in Writers : WStart(w) \/ WLock(w) \/ WriterStep(w)
    \/ \E r \in Readers : RStart(r) \/ ReaderStep(r)
    \/ \E c \in Compactors : CLoad(c) \/ CLock(c) \/ CEnq(c)
    \/ \E k \in Workers : JobBefore(k) \/ JobRun(k)
    \/ SchedStep
    \/ Terminated /\ UNCHANGED vars

(* Threads that have started an operation keep running (WF); mem_[s].mu  *)
(* is a std::shared_mutex, so a thread that keeps trying gets it (SF).    *)
(* Clients need not start new operations.                                 *)
Fairness ==
    /\ \A w \in Writers : WF_vars(WriterStep(w)) /\ SF_vars(WLock(w))
    /\ \A r \in Readers : WF_vars(ReaderStep(r))
    /\ \A c \in Compactors : SF_vars(CLock(c)) /\ WF_vars(CEnq(c))
    /\ \A k \in Workers : WF_vars(JobBefore(k)) /\ WF_vars(JobRun(k))
    /\ WF_vars(SchedStep)

Spec == Init /\ [][Next]_vars /\ Fairness

-----------------------------------------------------------------------------
TypeOK ==
    /\ cur \in Tables /\ seqctr \in 2..MaxTables + 1
    /\ imms.n \in Nat /\ l0.n \in Nat
    /\ msize \in [Tables -> Nat]
    /\ mstate \in [Tables -> {"open", "full", "persist"}]
    /\ merged \subseteq Tables
    /\ mu \in Writers \cup Compactors \cup {None}
    /\ waitSet \subseteq Writers
    /\ wpc \in [Writers -> {"idle", "copy", "fetch", "add", "lock", "stall", "sleep",
                            "waiting", "rotate", "enq"}]
    /\ whold \in [Writers -> Tables \cup {None}]
    /\ rpc \in [Readers -> {"idle", "imms", "immsit", "l0", "l0it", "lower", "below", "done"}]
    /\ rpos \in [Readers -> Tables \cup {None}]
    /\ cpc \in [Compactors -> {"idle", "lock", "enq"}]
    /\ JM!JMTypeOK

(* The newest version of key k a reader can reach: the current table, the *)
(* immutables and L0 tables linked from the chain heads, and the levels   *)
(* below.                                                                 *)
Visible(k) ==
    LET vs == {mdata[t][k] : t \in {cur} \cup ToSet(NS!Chain(imms))}
              \cup {pdata[t][k] : t \in ToSet(NS!Chain(l0))} \cup {lower[k]}
    IN CHOOSE v \in vs : \A u \in vs : ~Newer(u, v)

(* No lost write: the newest completed put of every key stays reachable   *)
(* through rotation, flush, trimming (pop_backs_if) and the L0 merge.     *)
NoLostWrite == \A k \in Keys : ~Newer(lastDone[k], Visible(k))

(* The search of brdb::get above level 1 (the current MemTable, the       *)
(* immutable chain, the L0 chain) never passes over a put that completed  *)
(* before the get began, although tables rotate, flush and are trimmed    *)
(* while it walks the chains: a hit there is at least as new as that put, *)
(* and a get that leaves L0 without a hit does so only once the put has   *)
(* been merged below L0.  What level 1's first-hit search then returns is *)
(* not claimed here (levels_stale shows it can be older).                 *)
ReadLatest == \A r \in Readers :
    /\ rpc[r] = "done" => ~Newer(rfloor[r], rres[r])
    /\ rpc[r] = "lower" => ~Newer(rfloor[r], lower[rkey[r]])

(* The write stall bounds DRAM: immutables + current table never exceed   *)
(* kDRAMSizeTotal (num_nodes_ + 1 tables).                                *)
DramBound == NS!Size(imms) + 1 =< DramTables

(* A writer blocked on ws_cv_ whose predicate has become true is          *)
(* eventually woken.                                                      *)
StallEnds == \A w \in Writers :
    (wpc[w] = "waiting" /\ NS!Size(imms) + 1 < DramTables) ~> wpc[w] # "waiting"

(* Every rotated MemTable is eventually flushed (mark_persist).           *)
FlushCompletes == \A t \in Tables : (t < cur) ~> mstate[t] = "persist"

=============================================================================
