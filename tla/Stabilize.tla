----------------------------- MODULE Stabilize -----------------------------
(***************************************************************************)
(* brdb::stabilize (src/brdb.cc) and the compaction pipeline of one shard  *)
(* it drains, run by three JobManagers: the engine's job_mgr_ ("main") and *)
(* the two backup managers backup_mgr_[0] and backup_mgr_[1] ("b0", "b1"), *)
(* each an instance of JobManager with its own scheduler and workers.      *)
(*                                                                         *)
(* Configuration as in Levels: kNumPmemLevels = 3, kNumLogUnifiedLevels =  *)
(* 2, so a MemTable is flushed into its L0 table (job level -1), the L0    *)
(* table is zipper-merged into level 1 (level 0), a full L1 table is       *)
(* merged by log-structured compaction into L2 (level 1), and L2 never     *)
(* rotates.  The periodic compaction thread is off                         *)
(* (kPeriodicCompactionModeDefault = 0).  The client threads finish their  *)
(* puts before stabilize is called, as YCSBRunner::run_all and simple_test *)
(* do.  A job's follow-up is enqueued on job_raw->job_mgr(), the manager  *)
(* that dispatched it (Job::set_job_manager in job_process_loop).          *)
(*                                                                         *)
(* Tables are named by seq (a MemTable and its L0 table share it) and L1   *)
(* tables by number.  Only sizes and states are kept: the data a job       *)
(* moves is the table it names.                                            *)
(***************************************************************************)
EXTENDS Integers, FiniteSets, Sequences

CONSTANTS
    MaxSeq,       \* MemTables that may be created: seqs 1..MaxSeq
    MaxL1,        \* L1 tables that may be created: 1..MaxL1 (TypeOK checks the bound)
    L1Cap,        \* kNumMergesToLevel[1]: zipper merges that fit an L1 table
    MWorkers,     \* the workers of job_mgr_ (kNumWorkers)
    AWorkers,     \* the workers of backup_mgr_[0]
    BWorkers,     \* the workers of backup_mgr_[1]
    NoJob

Seqs == 1..MaxSeq
L1Ids == 1..MaxL1

Jobs == {<<"mem", s>> : s \in Seqs} \cup {<<"l0", s>> : s \in Seqs}
            \cup {<<"l1", x>> : x \in L1Ids}

(* Job::level(): -1 for a flush, the lower level for a merge.             *)
JobLevel == [j \in Jobs |-> CASE j[1] = "mem" -> -1
                              [] j[1] = "l0"  -> 0
                              [] j[1] = "l1"  -> 1]

(* Job::seq_num(): the MemTable's seq for a flush, 0 for a merge.         *)
JobSeq == [j \in Jobs |-> IF j[1] = "mem" THEN j[2] ELSE 0]

Mgrs == {"main", "b0", "b1"}

VARIABLES
    jqM, pqM, runM, tcqM, wqM, wrunM, wtM, towM, spcM, finM, cbM,
    jqA, pqA, runA, tcqA, wqA, wrunA, wtA, towA, spcA, finA, cbA,
    jqB, pqB, runB, tcqB, wqB, wrunB, wtB, towB, spcB, finB, cbB

MAIN == INSTANCE JobManager WITH Workers <- MWorkers,
          jq <- jqM, pq <- pqM, running <- runM, tcq <- tcqM, wq <- wqM,
          wrun <- wrunM, wtasks <- wtM, towner <- towM, spc <- spcM,
          finished <- finM, cbdue <- cbM
BACK0 == INSTANCE JobManager WITH Workers <- AWorkers,
          jq <- jqA, pq <- pqA, running <- runA, tcq <- tcqA, wq <- wqA,
          wrun <- wrunA, wtasks <- wtA, towner <- towA, spc <- spcA,
          finished <- finA, cbdue <- cbA
BACK1 == INSTANCE JobManager WITH Workers <- BWorkers,
          jq <- jqB, pq <- pqB, running <- runB, tcq <- tcqB, wq <- wqB,
          wrun <- wrunB, wtasks <- wtB, towner <- towB, spc <- spcB,
          finished <- finB, cbdue <- cbB

mVars == <<jqM, pqM, runM, tcqM, wqM, wrunM, wtM, towM, spcM, finM, cbM>>
aVars == <<jqA, pqA, runA, tcqA, wqA, wrunA, wtA, towA, spcA, finA, cbA>>
bVars == <<jqB, pqB, runB, tcqB, wqB, wrunB, wtB, towB, spcB, finB, cbB>>

(* An action of the JobManager m, the other two managers unchanged.       *)
OnMgr(m, ActM, ActA, ActB) ==
    \/ m = "main" /\ ActM /\ UNCHANGED <<aVars, bVars>>
    \/ m = "b0"   /\ ActA /\ UNCHANGED <<mVars, bVars>>
    \/ m = "b1"   /\ ActB /\ UNCHANGED <<mVars, aVars>>

WorkersOf(m) == CASE m = "main" -> MWorkers [] m = "b0" -> AWorkers [] m = "b1" -> BWorkers
RunningTask(m, w) == CASE m = "main" -> wrunM[w] [] m = "b0" -> wrunA[w] [] m = "b1" -> wrunB[w]
Quiet(m) == CASE m = "main" -> MAIN!Quiescent [] m = "b0" -> BACK0!Quiescent
              [] m = "b1" -> BACK1!Quiescent
Enq(m, j) == OnMgr(m, MAIN!Enqueue(j), BACK0!Enqueue(j), BACK1!Enqueue(j))

-----------------------------------------------------------------------------
VARIABLES
    wpc,       \* the client threads: "run" while they put, then "done"
    mseq,      \* seq of mem_[s].table (memtable_seq_ - 1)
    mdata,     \* mem_[s].table->size() > 0
    imms,      \* mem_[s].table_list: seqs of the immutable MemTables
    persisted, \* MemTables marked persist
    l0,        \* level_[s][0].table_list: seqs of the L0 tables
    l0merged,  \* L0 tables marked merged down
    l1cur,     \* level_[s][1].table
    l1size,    \* size_ of every L1 table, in zipper reservations
    l1full,    \* L1 tables marked full (cas_mark_full)
    l1imms,    \* level_[s][1].table_list
    l1merged,  \* L1 tables marked merged down
    upper,     \* job_raw->upper_ of every zipper job: its L1 table, or 0
    hooked,    \* jobs whose before-hook has returned
    cpc,       \* where the stabilize thread is
    low,       \* stabilize's low
    lowInd,    \* stabilize's low_ind, as 0 or 1
    lv,        \* the level l of the enqueue loop
    stolen     \* the jobs steal_pending_jobs returned, not yet enqueued

tVars == <<wpc, mseq, mdata, imms, persisted, l0, l0merged, l1cur, l1size,
           l1full, l1imms, l1merged, upper, hooked>>
cVars == <<cpc, low, lowInd, lv, stolen>>
vars == <<mVars, aVars, bVars, tVars, cVars>>

High == 2   \* kNumPmemLevels - 1

(* my_mgr[i] of stabilize: backup_mgr_[i].                                *)
MyMgr(i) == IF i = 0 THEN "b0" ELSE "b1"

(* The tables of a generation chain that pop_backs_if removes: the        *)
(* longest run of oldest tables that all satisfy the predicate.           *)
PopBacks(chain, done) == {t \in chain : \A u \in chain : u =< t => u \in done}

Init ==
    /\ MAIN!JMInit /\ BACK0!JMInit /\ BACK1!JMInit
    /\ wpc = "run"
    /\ mseq = 1
    /\ mdata = FALSE
    /\ imms = {} /\ persisted = {}
    /\ l0 = {} /\ l0merged = {}
    /\ l1cur = 1
    /\ l1size = [x \in L1Ids |-> 0]
    /\ l1full = {} /\ l1imms = {} /\ l1merged = {}
    /\ upper = [j \in Jobs |-> 0]
    /\ hooked = {}
    /\ cpc = "idle" /\ low = -1 /\ lowInd = 0 /\ lv = -1 /\ stolen = {}

-----------------------------------------------------------------------------
(* The client threads, through brdb::put and get_writable_memtable, all   *)
(* enqueueing on job_mgr_.  The write stall is left out (DRAM as large as *)
(* the run needs).                                                        *)

(* A put that fits the current MemTable.                                  *)
Put ==
    /\ wpc = "run"
    /\ ~mdata
    /\ mdata' = TRUE
    /\ UNCHANGED <<mVars, aVars, bVars, cVars, wpc, mseq, imms, persisted, l0,
                   l0merged, l1cur, l1size, l1full, l1imms, l1merged, upper, hooked>>

(* A put that overflows the current MemTable: rotate it (push it and its  *)
(* future L0 table on the chains), put into the new one and enqueue the   *)
(* flush on job_mgr_ (enq_mem_compaction).                                *)
PutRotate ==
    /\ wpc = "run"
    /\ mdata
    /\ mseq < MaxSeq
    /\ imms' = imms \cup {mseq}
    /\ l0' = l0 \cup {mseq}
    /\ mseq' = mseq + 1
    /\ Enq("main", <<"mem", mseq>>)
    /\ UNCHANGED <<cVars, wpc, mdata, persisted, l0merged, l1cur, l1size, l1full,
                   l1imms, l1merged, upper, hooked>>

(* The client threads return (BrDBClient::run joins them).               *)
PutsDone ==
    /\ wpc = "run"
    /\ wpc' = "done"
    /\ UNCHANGED <<mVars, aVars, bVars, cVars, mseq, mdata, imms, persisted, l0,
                   l0merged, l1cur, l1size, l1full, l1imms, l1merged, upper, hooked>>

-----------------------------------------------------------------------------
(* The scheduler thread and the workers of every manager.                 *)

SchedCollect(m) ==
    /\ OnMgr(m, MAIN!SchedCollect, BACK0!SchedCollect, BACK1!SchedCollect)
    /\ UNCHANGED <<tVars, cVars>>

SchedDispatch(m) ==
    /\ OnMgr(m, MAIN!SchedDispatch, BACK0!SchedDispatch, BACK1!SchedDispatch)
    /\ UNCHANGED <<tVars, cVars>>

WorkerStart(m, w) ==
    /\ OnMgr(m, MAIN!WorkerStart(w), BACK0!WorkerStart(w), BACK1!WorkerStart(w))
    /\ UNCHANGED <<tVars, cVars>>

(* task->run() and complete_task, once the job's before-hook returned.    *)
WorkerFinish(m, w) ==
    /\ RunningTask(m, w) \in hooked
    /\ OnMgr(m, MAIN!WorkerFinish(w), BACK0!WorkerFinish(w), BACK1!WorkerFinish(w))
    /\ UNCHANGED <<tVars, cVars>>

(* The before-hook of a flush: the writers that held the MemTable are     *)
(* gone, so its use_count spin ends at once; it sets upper_ to the        *)
(* MemTable's future L0 table.                                            *)
FlushHook(m, w) ==
    /\ RunningTask(m, w) \in {<<"mem", s>> : s \in Seqs} \ hooked
    /\ hooked' = hooked \cup {RunningTask(m, w)}
    /\ UNCHANGED <<mVars, aVars, bVars, cVars, wpc, mseq, mdata, imms, persisted,
                   l0, l0merged, l1cur, l1size, l1full, l1imms, l1merged, upper>>

(* The zipper hook: get_writable_pmemtable on level 1.  fetch_add_size    *)
(* reserves room in the current L1 table; if it overflows, the hook marks *)
(* the table full, rotates level 1, enqueues the table's log-structured   *)
(* merge on job_raw->job_mgr() (this manager) and reserves in the new     *)
(* table.  With L1Cap = 1 a table is marked full only once non-empty and  *)
(* only a reservation in an empty table fits, so the loop's retries over  *)
(* a table another thread is rotating change nothing and the hook is one  *)
(* step.                                                                  *)
ZipperHook(m, w) ==
    LET j == RunningTask(m, w) IN
    /\ j \in {<<"l0", s>> : s \in Seqs} \ hooked
    /\ hooked' = hooked \cup {j}
    /\ IF l1size[l1cur] < L1Cap
       THEN /\ l1size' = [l1size EXCEPT ![l1cur] = @ + 1]
            /\ upper' = [upper EXCEPT ![j] = l1cur]
            /\ UNCHANGED <<mVars, aVars, bVars, l1cur, l1full, l1imms>>
       ELSE /\ l1full' = l1full \cup {l1cur}
            /\ l1imms' = l1imms \cup {l1cur}
            /\ l1cur' = l1cur + 1
            /\ l1size' = [l1size EXCEPT ![l1cur] = L1Cap + 1, ![l1cur + 1] = 1]
            /\ upper' = [upper EXCEPT ![j] = l1cur + 1]
            /\ Enq(m, <<"l1", l1cur>>)
    /\ UNCHANGED <<cVars, wpc, mseq, mdata, imms, persisted, l0, l0merged, l1merged>>

(* The log-structured hook: spin while lower.use_count() > 3, that is     *)
(* while a zipper job still holds the L1 table as its upper_; then        *)
(* get_writable_pmemtable on level 2, which never rotates.                *)
LogStructuredHook(m, w) ==
    LET j == RunningTask(m, w) IN
    /\ j \in {<<"l1", x>> : x \in L1Ids} \ hooked
    /\ \A z \in Jobs : upper[z] # j[2]
    /\ hooked' = hooked \cup {j}
    /\ UNCHANGED <<mVars, aVars, bVars, cVars, wpc, mseq, mdata, imms, persisted,
                   l0, l0merged, l1cur, l1size, l1full, l1imms, l1merged, upper>>

(* The flush callback: mark_persist, pop the persisted MemTables off the  *)
(* chain's back, and enqueue the L0 table's zipper merge on               *)
(* job_raw->job_mgr().                                                     *)
FlushCallback(m, s) ==
    LET j == <<"mem", s>> IN
    /\ OnMgr(m, MAIN!SchedCallback(j, <<<<"l0", s>>>>),
               BACK0!SchedCallback(j, <<<<"l0", s>>>>),
               BACK1!SchedCallback(j, <<<<"l0", s>>>>))
    /\ persisted' = persisted \cup {s}
    /\ imms' = imms \ PopBacks(imms, persisted')
    /\ UNCHANGED <<cVars, wpc, mseq, mdata, l0, l0merged, l1cur, l1size, l1full,
                   l1imms, l1merged, upper, hooked>>

(* The zipper callback: mark_merged_down, pop the merged L0 tables and    *)
(* reset upper_.                                                          *)
ZipperCallback(m, s) ==
    LET j == <<"l0", s>> IN
    /\ OnMgr(m, MAIN!SchedCallback(j, <<>>), BACK0!SchedCallback(j, <<>>),
               BACK1!SchedCallback(j, <<>>))
    /\ l0merged' = l0merged \cup {s}
    /\ l0' = l0 \ PopBacks(l0, l0merged')
    /\ upper' = [upper EXCEPT ![j] = 0]
    /\ UNCHANGED <<cVars, wpc, mseq, mdata, imms, persisted, l1cur, l1size, l1full,
                   l1imms, l1merged, hooked>>

(* The log-structured callback: mark_merged_down and pop the merged L1    *)
(* tables.                                                                *)
LogStructuredCallback(m, x) ==
    LET j == <<"l1", x>> IN
    /\ OnMgr(m, MAIN!SchedCallback(j, <<>>), BACK0!SchedCallback(j, <<>>),
               BACK1!SchedCallback(j, <<>>))
    /\ l1merged' = l1merged \cup {x}
    /\ l1imms' = l1imms \ PopBacks(l1imms, l1merged')
    /\ UNCHANGED <<cVars, wpc, mseq, mdata, imms, persisted, l0, l0merged, l1cur,
                   l1size, l1full, upper, hooked>>

-----------------------------------------------------------------------------
(* brdb::stabilize, on the thread that calls it after the puts.           *)

(* my_mgr[(level != low) ^ low_ind]: the backup manager for a job or a    *)
(* manual compaction of the given level.                                  *)
MgrFor(level) == MyMgr(IF level # low THEN 1 - lowInd ELSE lowInd)

Begin ==
    /\ cpc = "idle"
    /\ wpc = "done"
    /\ cpc' = "steal"
    /\ UNCHANGED <<mVars, aVars, bVars, tVars, low, lowInd, lv, stolen>>

(* auto jobs = job_mgr_->steal_pending_jobs().                            *)
Steal ==
    /\ cpc = "steal"
    /\ stolen' = pqM
    /\ MAIN!StealPending
    /\ cpc' = "dist"
    /\ UNCHANGED <<aVars, bVars, tVars, low, lowInd, lv>>

(* for (auto& job : jobs) my_mgr[(job->level()!=low)^low_ind]->enqueue(). *)
(* pq_ is a deque sorted at the last dispatch with later arrivals behind, *)
(* so the order is left open.                                             *)
Distribute ==
    /\ cpc = "dist"
    /\ \E j \in stolen :
          /\ Enq(MgrFor(JobLevel[j]), j)
          /\ stolen' = stolen \ {j}
    /\ UNCHANGED <<tVars, cpc, low, lowInd, lv>>

DistributeDone ==
    /\ cpc = "dist"
    /\ stolen = {}
    /\ cpc' = "enq"
    /\ lv' = low
    /\ UNCHANGED <<mVars, aVars, bVars, tVars, low, lowInd, stolen>>

(* enq_manual_mem_compaction: if the current MemTable is not empty, mark  *)
(* it full, rotate it under mem_[s].mu and enqueue its flush on mgr.      *)
ManualMem(mgr) ==
    IF mdata
    THEN /\ imms' = imms \cup {mseq}
         /\ l0' = l0 \cup {mseq}
         /\ mseq' = mseq + 1
         /\ mdata' = FALSE
         /\ Enq(mgr, <<"mem", mseq>>)
         /\ UNCHANGED <<l1cur, l1size, l1full, l1imms>>
    ELSE UNCHANGED <<mVars, aVars, bVars, mseq, mdata, imms, l0, l1cur, l1size,
                     l1full, l1imms>>

(* enq_manual_pmem_compaction on level 1: if the current table is not     *)
(* empty and cas_mark_full wins, rotate it and enqueue its merge on mgr.  *)
(* On level 0 level_[s][0].table is null (brdb::brdb creates tables from  *)
(* level 1 on), so the call does nothing.                                 *)
ManualPmem(level, mgr) ==
    IF level = 1 /\ l1size[l1cur] > 0 /\ l1cur \notin l1full
    THEN /\ l1full' = l1full \cup {l1cur}
         /\ l1imms' = l1imms \cup {l1cur}
         /\ l1cur' = l1cur + 1
         /\ Enq(mgr, <<"l1", l1cur>>)
         /\ UNCHANGED <<mseq, mdata, imms, l0, l1size>>
    ELSE UNCHANGED <<mVars, aVars, bVars, mseq, mdata, imms, l0, l1cur, l1size,
                     l1full, l1imms>>

(* One iteration of `for (int l = low; l < high; l++)`: the manual        *)
(* compaction of level l on my_mgr[(l!=low)^low_ind].                      *)
EnqManual ==
    /\ cpc = "enq"
    /\ IF lv < 0 THEN ManualMem(MgrFor(lv)) ELSE ManualPmem(lv, MgrFor(lv))
    /\ IF lv + 1 < High THEN lv' = lv + 1 /\ cpc' = cpc
                        ELSE cpc' = "wait" /\ lv' = lv
    /\ UNCHANGED <<wpc, persisted, l0merged, l1merged, upper, hooked, low, lowInd,
                   stolen>>

(* Variant of WaitLow whose loop test reads `low <= high` for            *)
(* `low < high`.                                                          *)
WaitLowLoopLE ==
    /\ cpc = "wait"
    /\ Quiet(MyMgr(lowInd))
    /\ low' = low + 1
    /\ lowInd' = 1 - lowInd
    /\ IF low + 1 =< High THEN cpc' = "enq" /\ lv' = low + 1
                          ELSE cpc' = "final" /\ lv' = lv
    /\ UNCHANGED <<mVars, aVars, bVars, tVars, stolen>>

(* Variant of WaitLow that flips low_ind but does not advance low.        *)
WaitLowNoAdvance ==
    /\ cpc = "wait"
    /\ Quiet(MyMgr(lowInd))
    /\ lowInd' = 1 - lowInd
    /\ IF low < High THEN cpc' = "enq" /\ lv' = low
                     ELSE cpc' = "final" /\ lv' = lv
    /\ UNCHANGED <<mVars, aVars, bVars, tVars, stolen, low>>

(* my_mgr[low_ind]->wait(); low++; low_ind ^= 1; and the loop test.       *)
WaitLow ==
    /\ cpc = "wait"
    /\ Quiet(MyMgr(lowInd))
    /\ low' = low + 1
    /\ lowInd' = 1 - lowInd
    /\ IF low + 1 < High THEN cpc' = "enq" /\ lv' = low + 1
                         ELSE cpc' = "final" /\ lv' = lv
    /\ UNCHANGED <<mVars, aVars, bVars, tVars, stolen>>

(* The last my_mgr[low_ind]->wait().                                      *)
FinalWait ==
    /\ cpc = "final"
    /\ Quiet(MyMgr(lowInd))
    /\ cpc' = "main"
    /\ UNCHANGED <<mVars, aVars, bVars, tVars, low, lowInd, lv, stolen>>

(* job_mgr_->wait(), after which stabilize returns.                       *)
MainWait ==
    /\ cpc = "main"
    /\ Quiet("main")
    /\ cpc' = "done"
    /\ UNCHANGED <<mVars, aVars, bVars, tVars, low, lowInd, lv, stolen>>

-----------------------------------------------------------------------------
Manager(m) ==
    \/ SchedCollect(m)
    \/ SchedDispatch(m)
    \/ \E s \in Seqs : FlushCallback(m, s) \/ ZipperCallback(m, s)
    \/ \E x \in L1Ids : LogStructuredCallback(m, x)
    \/ \E w \in WorkersOf(m) :
          \/ WorkerStart(m, w)
          \/ FlushHook(m, w) \/ ZipperHook(m, w) \/ LogStructuredHook(m, w)
          \/ WorkerFinish(m, w)

Client ==
    Begin \/ Steal \/ Distribute \/ DistributeDone \/ EnqManual \/ WaitLow
      \/ FinalWait \/ MainWait

(* stabilize has returned and the pipeline is idle.                       *)
Idle ==
    /\ cpc = "done"
    /\ \A m \in Mgrs : Quiet(m)
    /\ UNCHANGED vars

Next ==
    \/ Put \/ PutRotate \/ PutsDone
    \/ \E m \in Mgrs : Manager(m)
    \/ Client
    \/ Idle

(* Every thread that can run does run: the three schedulers, every worker *)
(* and the stabilize thread once it has begun.  Nothing forces a client to *)
(* finish its puts or to call stabilize.                                   *)
Scheduler(m) ==
    \/ SchedCollect(m) \/ SchedDispatch(m)
    \/ \E s \in Seqs : FlushCallback(m, s) \/ ZipperCallback(m, s)
    \/ \E x \in L1Ids : LogStructuredCallback(m, x)

Worker(m, w) ==
    WorkerStart(m, w) \/ FlushHook(m, w) \/ ZipperHook(m, w)
      \/ LogStructuredHook(m, w) \/ WorkerFinish(m, w)

Fairness ==
    /\ \A m \in Mgrs : WF_vars(Scheduler(m))
    /\ \A w \in MWorkers : WF_vars(Worker("main", w))
    /\ \A w \in AWorkers : WF_vars(Worker("b0", w))
    /\ \A w \in BWorkers : WF_vars(Worker("b1", w))
    /\ WF_vars(Client /\ cpc # "idle")

Spec == Init /\ [][Next]_vars /\ Fairness

-----------------------------------------------------------------------------
TypeOK ==
    /\ MAIN!JMTypeOK /\ BACK0!JMTypeOK /\ BACK1!JMTypeOK
    /\ mseq \in 1..(MaxSeq + 1)
    /\ imms \subseteq Seqs /\ l0 \subseteq Seqs
    /\ l1cur \in L1Ids
    /\ l1size \in [L1Ids -> 0..(L1Cap + 1)]
    /\ upper \in [Jobs -> {0} \cup L1Ids]
    /\ low \in -1..High /\ lowInd \in {0, 1}
    /\ cpc \in {"idle", "steal", "dist", "enq", "wait", "final", "main", "done"}
    /\ stolen \subseteq Jobs

(* brdb::get_table_state: the MemTables and the tables of every level     *)
(* that are current and non-empty or on the immutable chain.  Level 0 has *)
(* no current table.                                                      *)
MemCount == (IF mdata THEN 1 ELSE 0) + Cardinality(imms)
PmemCount(level) ==
    CASE level = 0 -> Cardinality(l0)
      [] level = 1 -> (IF l1size[l1cur] > 0 THEN 1 ELSE 0) + Cardinality(l1imms)

(* When stabilize returns, no manager has a job enqueued, pending or      *)
(* running, and no MemTable, L0 table or L1 table is left on a chain: all *)
(* the work derived from the tables was done, although the jobs stolen    *)
(* from job_mgr_, those it kept, and their follow-ups ran on three        *)
(* managers whose waits stabilize takes in a fixed order.                 *)
StabilizeQuiesces ==
    cpc = "done" =>
        /\ \A m \in Mgrs : Quiet(m)
        /\ imms = {} /\ l0 = {} /\ l1imms = {}

(* stabilize returns once it has begun: every wait it takes ends.          *)
StabilizeReturns == cpc = "steal" ~> cpc = "done"

(* spec.md: stabilize "drains all pending and derivable compaction work   *)
(* to quiescence", leaving only "the single current (empty) table per     *)
(* tier": when it returns, get_table_state counts no MemTable and no L0   *)
(* or L1 table.                                                           *)
StabilizeDrains ==
    cpc = "done" => MemCount = 0 /\ PmemCount(0) = 0 /\ PmemCount(1) = 0
====
