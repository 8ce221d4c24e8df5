------------------------------- MODULE Levels -------------------------------
(***************************************************************************)
(* The persistent levels of one shard (kNumPmemLevels = 3): the L0 chain  *)
(* of PmemTables, level 1 (a current table level_[s][1].table and its      *)
(* chain of immutables) and the last level L2 (one table that never       *)
(* rotates: kPmemTableSize[2] = -1).  Three kinds of step change them:    *)
(*   - the zipper job of enq_zipper_compaction (L0 -> L1), whose hook     *)
(*     calls get_writable_pmemtable on level 1 and may rotate it;         *)
(*   - the log-structured job of enq_log_structured_compaction (L1 -> L2),*)
(*     whose hook spins while the L1 table has more than 3 references;    *)
(*   - the periodic thread's enq_manual_pmem_compaction(s, 1).            *)
(* The MemTable tier above is MemTier.tla; here it is its interface: the  *)
(* rotation pushes the future PmemTable on L0, and the flush callback      *)
(* fills it and enqueues its zipper job, in any order of tables (flush    *)
(* jobs run in priority order on any worker).                             *)
(*                                                                         *)
(* A node's tag is the seq_order of the MemTable it was written in, so a   *)
(* version is that seq (0: no version).  Every merge keeps the highest    *)
(* tag of a key (lockfree_pskiplist is not part of this repository).       *)
(***************************************************************************)
EXTENDS Naturals, Sequences, FiniteSets, SequencesExt

CONSTANTS
    Keys,
    Workers,      \* compaction workers of job_mgr_
    Compactors,   \* the periodic compaction thread ({} when disabled)
    L0Max,        \* bound on the MemTables (and L0 tables) created
    L1Cap,        \* kNumMergesToLevel[1]: L0 merges an L1 table takes
    L1Max,        \* bound on the L1 tables created
    MaxManual,    \* bound on iterations of periodic_compaction_loop
    None

L0Ids == 1..L0Max
L1Ids == 1..L1Max
L2 == 0          \* names the last level's table among the L1 table ids
Jobs == {<<"l0", t>> : t \in L0Ids} \cup {<<"l1", x>> : x \in L1Ids}

VARIABLES
    l0next,    \* seq_order of the next MemTable to rotate
    l0,        \* level_[s][0].immutables
    flushed,   \* L0 tables whose flush job has called back
    pdata,     \* pdata[t][k]: version of k in L0 table t
    merged0,   \* L0 tables marked merged_down
    l1cur,     \* level_[s][1].table
    l1next,    \* the next L1 table to allocate
    l1imms,    \* level_[s][1].immutables
    l1size,    \* size_ of each L1 table, in L0 merges, saturated at L1Cap+1
    l1state,   \* state_ of each L1 table
    l1data,    \* l1data[x][k]: version of k in L1 table x
    l2data,    \* the last level's table
    hpc,       \* where each worker is in its job's before-hook
    hpmem,     \* the local `pmem` of get_writable_pmemtable
    jupper,    \* Job::upper_ of each job
    cpc, cmut, cruns,
    jq, pq, running, tcq, wq, wrun, wtasks, towner, spc, finished, cbdue

levelVars == <<l0next, l0, flushed, pdata, merged0, l1cur, l1next, l1imms, l1size,
               l1state, l1data, l2data>>
hookVars == <<hpc, hpmem, jupper>>
compVars == <<cpc, cmut, cruns>>
jmVars == <<jq, pq, running, tcq, wq, wrun, wtasks, towner, spc, finished, cbdue>>
vars == <<levelVars, hookVars, compVars, jmVars>>

JM == INSTANCE JobManager WITH
        JobLevel <- [j \in Jobs |-> IF j[1] = "l0" THEN 0 ELSE 1],
        JobSeq   <- [j \in Jobs |-> 0],
        NoJob    <- None

NS0 == INSTANCE NbrStack WITH Ids <- L0Ids
NS1 == INSTANCE NbrStack WITH Ids <- L1Ids

NoData == [k \in Keys |-> 0]

(* The merge of a lower table into an upper one keeps, per key, the        *)
(* higher tag.                                                            *)
MergeInto(upper, lower) == [k \in Keys |-> IF lower[k] > upper[k] THEN lower[k] ELSE upper[k]]

(* References to L1 table x beyond the 3 of its chain node and its own    *)
(* job's two closures: a hook's local `pmem`, a zipper job's upper_, and  *)
(* the periodic thread's `mut`.                                           *)
L1Refs(x) ==
    Cardinality({k \in Workers : hpmem[k] = x})
  + Cardinality({t \in L0Ids : jupper[<<"l0", t>>] = x})
  + Cardinality({c \in Compactors : cmut[c] = x})

Init ==
    /\ l0next = 1 /\ l0 = NS0!Empty /\ flushed = {}
    /\ pdata = [t \in L0Ids |-> NoData] /\ merged0 = {}
    /\ l1cur = 1 /\ l1next = 2 /\ l1imms = NS1!Empty
    /\ l1size = [x \in L1Ids |-> 0]
    /\ l1state = [x \in L1Ids |-> "open"]
    /\ l1data = [x \in L1Ids |-> NoData]
    /\ l2data = NoData
    /\ hpc = [k \in Workers |-> "none"] /\ hpmem = [k \in Workers |-> None]
    /\ jupper = [j \in Jobs |-> None]
    /\ cpc = [c \in Compactors |-> "idle"] /\ cmut = [c \in Compactors |-> None]
    /\ cruns = [c \in Compactors |-> 0]
    /\ JM!JMInit

-----------------------------------------------------------------------------
(* The MemTable tier's side of the interface.                              *)

(* get_writable_memtable / enq_manual_mem_compaction rotate the MemTable  *)
(* and push its future PmemTable, with the same seq_order, on L0.         *)
Push0 ==
    /\ l0next =< L0Max
    /\ l0' = NS0!PushFront(l0, l0next)
    /\ l0next' = l0next + 1
    /\ UNCHANGED <<flushed, pdata, merged0, l1cur, l1next, l1imms, l1size, l1state,
                   l1data, l2data, hookVars, compVars, jmVars>>

(* The flush job: merge_WAL fills the L0 table with the MemTable's keys,  *)
(* and its callback calls enq_pmem_compaction(s, 0, ...), which enqueues  *)
(* the zipper job (level 0, seq_num 0).                                   *)
Flush(t) ==
    /\ t \in ToSet(NS0!Chain(l0)) /\ t \notin flushed
    /\ \E ks \in SUBSET Keys :
         pdata' = [pdata EXCEPT ![t] = [k \in Keys |-> IF k \in ks THEN t ELSE 0]]
    /\ flushed' = flushed \cup {t}
    /\ JM!Enqueue(<<"l0", t>>)
    /\ UNCHANGED <<l0next, l0, merged0, l1cur, l1next, l1imms, l1size, l1state,
                   l1data, l2data, hookVars, compVars>>

-----------------------------------------------------------------------------
(* Worker threads: Worker::task_process_loop fetches the task and runs    *)
(* the job's before-hook, step by step, then the task body.               *)

HookStart(k) ==
    /\ hpc[k] = "none"
    /\ JM!WorkerStart(k)
    /\ hpc' = [hpc EXCEPT ![k] = "spin"]
    /\ UNCHANGED <<levelVars, hpmem, jupper, compVars>>

(* Variant of HookSpin whose log-structured hook does not wait for the    *)
(* use_count of the L1 table to drop to 3.                                *)
HookSpinNoWait(k) ==
    /\ hpc[k] = "spin"
    /\ LET j == wrun[k] IN
       IF j[1] = "l0"
       THEN hpc' = [hpc EXCEPT ![k] = "load"] /\ UNCHANGED jupper
       ELSE /\ jupper' = [jupper EXCEPT ![j] = L2]
            /\ hpc' = [hpc EXCEPT ![k] = "ready"]
    /\ UNCHANGED <<levelVars, hpmem, compVars, jmVars>>

(* The zipper hook's `while (lower.use_count() > 4)` waits only for        *)
(* transient reader copies, which this model does not hold across steps;  *)
(* it then calls get_writable_pmemtable(level 1).  The log-structured     *)
(* hook spins `while (lower.use_count() > 3)` until no zipper job, hook   *)
(* or periodic thread holds the L1 table, then gets the L2 table, which   *)
(* never fills.                                                           *)
HookSpin(k) ==
    /\ hpc[k] = "spin"
    /\ LET j == wrun[k] IN
       IF j[1] = "l0"
       THEN hpc' = [hpc EXCEPT ![k] = "load"] /\ UNCHANGED jupper
       ELSE /\ L1Refs(j[2]) = 0
            /\ jupper' = [jupper EXCEPT ![j] = L2]
            /\ hpc' = [hpc EXCEPT ![k] = "ready"]
    /\ UNCHANGED <<levelVars, hpmem, compVars, jmVars>>

(* get_writable_pmemtable: `pmem = level_[s][level].table`.                *)
HookLoad(k) ==
    /\ hpc[k] = "load"
    /\ hpmem' = [hpmem EXCEPT ![k] = l1cur]
    /\ hpc' = [hpc EXCEPT ![k] = "fetch"]
    /\ UNCHANGED <<levelVars, jupper, compVars, jmVars>>

(* Variant of HookFetch that, on losing cas_mark_full, retries the same   *)
(* table instead of reloading the current one.                            *)
HookFetchNoReload(k) ==
    /\ hpc[k] = "fetch"
    /\ LET x == hpmem[k]
           j == wrun[k]
       IN /\ l1size' = [l1size EXCEPT ![x] = IF @ > L1Cap THEN @ ELSE @ + 1]
          /\ IF l1size[x] + 1 =< L1Cap
             THEN /\ jupper' = [jupper EXCEPT ![j] = x]
                  /\ hpmem' = [hpmem EXCEPT ![k] = None]
                  /\ hpc' = [hpc EXCEPT ![k] = "ready"]
                  /\ UNCHANGED l1state
             ELSE IF l1state[x] = "open"
             THEN /\ l1state' = [l1state EXCEPT ![x] = "full"]
                  /\ hpc' = [hpc EXCEPT ![k] = "rotate"]
                  /\ UNCHANGED <<hpmem, jupper>>
             ELSE UNCHANGED <<l1state, hpc, hpmem, jupper>>
    /\ UNCHANGED <<l0next, l0, flushed, pdata, merged0, l1cur, l1next, l1imms,
                   l1data, l2data, compVars, jmVars>>

(* fetch_add_size(write_size); if the table overflows, cas_mark_full: the *)
(* winner rotates, a loser sets pmem = nullptr and reloads.  Otherwise    *)
(* the table becomes the job's upper_.                                    *)
HookFetch(k) ==
    /\ hpc[k] = "fetch"
    /\ LET x == hpmem[k]
           j == wrun[k]
       IN /\ l1size' = [l1size EXCEPT ![x] = IF @ > L1Cap THEN @ ELSE @ + 1]
          /\ IF l1size[x] + 1 =< L1Cap
             THEN /\ jupper' = [jupper EXCEPT ![j] = x]
                  /\ hpmem' = [hpmem EXCEPT ![k] = None]
                  /\ hpc' = [hpc EXCEPT ![k] = "ready"]
                  /\ UNCHANGED l1state
             ELSE IF l1state[x] = "open"
             THEN /\ l1state' = [l1state EXCEPT ![x] = "full"]
                  /\ hpc' = [hpc EXCEPT ![k] = "rotate"]
                  /\ UNCHANGED <<hpmem, jupper>>
             ELSE /\ hpmem' = [hpmem EXCEPT ![k] = None]
                  /\ hpc' = [hpc EXCEPT ![k] = "load"]
                  /\ UNCHANGED <<l1state, jupper>>
    /\ UNCHANGED <<l0next, l0, flushed, pdata, merged0, l1cur, l1next, l1imms,
                   l1data, l2data, compVars, jmVars>>

(* The rotation of level 1 shared by get_writable_pmemtable and           *)
(* enq_manual_pmem_compaction: new_pmem_table, push the old table on the  *)
(* immutables, atomic_store the new one, enq_pmem_compaction(s, 1, old),  *)
(* which enqueues the log-structured job (level 1 < kNumPmemLevels - 1).  *)
RotateL1(x) ==
    /\ l1next =< L1Max
    /\ l1imms' = NS1!PushFront(l1imms, x)
    /\ l1cur' = l1next
    /\ l1next' = l1next + 1
    /\ JM!Enqueue(<<"l1", x>>)

(* The winner of cas_mark_full rotates and continues with the new table. *)
HookRotate(k) ==
    /\ hpc[k] = "rotate"
    /\ RotateL1(hpmem[k])
    /\ hpmem' = [hpmem EXCEPT ![k] = l1next]
    /\ hpc' = [hpc EXCEPT ![k] = "fetch"]
    /\ UNCHANGED <<l0next, l0, flushed, pdata, merged0, l1size, l1state, l1data, l2data,
                   jupper, compVars>>

(* run_zipper_compaction_task: zipper_compaction of L0 table t into      *)
(* the L1 table upper_.                                                   *)
ZipperRun(t, x) ==
    /\ l1data' = [l1data EXCEPT ![x] = MergeInto(@, pdata[t])]
    /\ UNCHANGED l2data

(* run_log_structured_compaction_task: log_structured_compaction of L1    *)
(* table x into the last level.                                           *)
LogStructuredRun(x) ==
    /\ l2data' = MergeInto(l2data, l1data[x])
    /\ UNCHANGED l1data

(* task->run() runs the job's body; complete_task.                        *)
JobRun(k) ==
    /\ hpc[k] = "ready"
    /\ JM!WorkerFinish(k)
    /\ LET j == wrun[k] IN
       IF j[1] = "l0" THEN ZipperRun(j[2], jupper[j]) ELSE LogStructuredRun(j[2])
    /\ hpc' = [hpc EXCEPT ![k] = "none"]
    /\ UNCHANGED <<l0next, l0, flushed, pdata, merged0, l1cur, l1next, l1imms, l1size,
                   l1state, hpmem, jupper, compVars>>

(* Zipper callback: mark_merged_down, trim the merged tail of L0,         *)
(* upper_ = nullptr.                                                      *)
L0Callback(t) ==
    LET j == <<"l0", t>> IN
    /\ JM!SchedCallback(j, <<>>)
    /\ merged0' = merged0 \cup {t}
    /\ l0' = NS0!PopBacksIf(l0, merged0')
    /\ jupper' = [jupper EXCEPT ![j] = None]
    /\ UNCHANGED <<l0next, flushed, pdata, l1cur, l1next, l1imms, l1size, l1state,
                   l1data, l2data, hpc, hpmem, compVars>>

(* Log-structured callback: mark_merged_down, trim the merged tail of     *)
(* level 1, upper_ = nullptr.                                             *)
L1Callback(x) ==
    LET j == <<"l1", x>> IN
    /\ JM!SchedCallback(j, <<>>)
    /\ l1state' = [l1state EXCEPT ![x] = "merged"]
    /\ l1imms' = NS1!PopBacksIf(l1imms, {y \in L1Ids : l1state'[y] = "merged"})
    /\ jupper' = [jupper EXCEPT ![j] = None]
    /\ UNCHANGED <<l0next, l0, flushed, pdata, merged0, l1cur, l1next, l1size,
                   l1data, l2data, hpc, hpmem, compVars>>

SchedCollect ==
    /\ JM!SchedCollect
    /\ UNCHANGED <<levelVars, hookVars, compVars>>

SchedDispatch ==
    /\ JM!SchedDispatch
    /\ UNCHANGED <<levelVars, hookVars, compVars>>

-----------------------------------------------------------------------------
(* The periodic thread's enq_manual_compaction(s, 1): the iteration for   *)
(* level -1 is MemTier's; the one for level 0 finds no level_[s][0].table. *)

(* `auto mut = level_[s][1].table`.                                        *)
CLoad(c) ==
    /\ cpc[c] = "idle" /\ cruns[c] < MaxManual
    /\ cmut' = [cmut EXCEPT ![c] = l1cur]
    /\ cpc' = [cpc EXCEPT ![c] = "mark"]
    /\ UNCHANGED <<levelVars, hookVars, cruns, jmVars>>

(* `if (mut && mut->size() > 0 && mut->cas_mark_full() == 0)`: no lock   *)
(* and no check that mut is still the current table.                      *)
CMark(c) ==
    /\ cpc[c] = "mark"
    /\ LET x == cmut[c] IN
       IF l1size[x] > 0 /\ l1state[x] = "open"
       THEN /\ l1state' = [l1state EXCEPT ![x] = "full"]
            /\ cpc' = [cpc EXCEPT ![c] = "rotate"]
            /\ UNCHANGED <<cmut, cruns>>
       ELSE /\ cmut' = [cmut EXCEPT ![c] = None]
            /\ cpc' = [cpc EXCEPT ![c] = "idle"]
            /\ cruns' = [cruns EXCEPT ![c] = @ + 1]
            /\ UNCHANGED l1state
    /\ UNCHANGED <<l0next, l0, flushed, pdata, merged0, l1cur, l1next, l1imms, l1size,
                   l1data, l2data, hookVars, jmVars>>

(* Rotate and enqueue; the locals go out of scope.                        *)
CRotate(c) ==
    /\ cpc[c] = "rotate"
    /\ RotateL1(cmut[c])
    /\ cmut' = [cmut EXCEPT ![c] = None]
    /\ cpc' = [cpc EXCEPT ![c] = "idle"]
    /\ cruns' = [cruns EXCEPT ![c] = @ + 1]
    /\ UNCHANGED <<l0next, l0, flushed, pdata, merged0, l1size, l1state, l1data, l2data,
                   hookVars>>

-----------------------------------------------------------------------------
Terminated ==
    /\ l0next > L0Max /\ flushed = L0Ids
    /\ \A c \in Compactors : cpc[c] = "idle" /\ cruns[c] = MaxManual
    /\ \A k \in Workers : hpc[k] = "none"
    /\ JM!Quiescent /\ tcq = <<>> /\ spc = "wait"

WorkerStep(k) ==
    \/ HookStart(k) \/ HookSpin(k) \/ HookLoad(k) \/ HookFetch(k) \/ HookRotate(k)
    \/ JobRun(k)

SchedStep ==
    \/ SchedCollect \/ SchedDispatch
    \/ \E t \in L0Ids : L0Callback(t)
    \/ \E x \in L1Ids : L1Callback(x)

CompStep(c) == CMark(c) \/ CRotate(c)

Next ==
    \/ Push0 \/ \E t \in L0Ids : Flush(t)
    \/ \E k \in Workers : WorkerStep(k)
    \/ SchedStep
    \/ \E c \in Compactors : CLoad(c) \/ CompStep(c)
    \/ Terminated /\ UNCHANGED vars

(* Workers, the scheduler and a periodic iteration that has begun keep    *)
(* running.  The tier above need not rotate, but flushes every table it   *)
(* has rotated: that is MemTier's FlushCompletes, checked there.          *)
Fairness ==
    /\ WF_vars(\E t \in L0Ids : Flush(t))
    /\ \A k \in Workers : WF_vars(WorkerStep(k))
    /\ WF_vars(SchedStep)
    /\ \A c \in Compactors : WF_vars(CompStep(c))

Spec == Init /\ [][Next]_vars /\ Fairness

-----------------------------------------------------------------------------
TypeOK ==
    /\ l0next \in 1..L0Max + 1 /\ flushed \subseteq L0Ids /\ merged0 \subseteq flushed
    /\ pdata \in [L0Ids -> [Keys -> 0..L0Max]]
    /\ l1cur \in L1Ids /\ l1next \in 2..L1Max + 1
    /\ l1size \in [L1Ids -> 0..L1Cap + 1]
    /\ l1state \in [L1Ids -> {"open", "full", "merged"}]
    /\ l1data \in [L1Ids -> [Keys -> 0..L0Max]] /\ l2data \in [Keys -> 0..L0Max]
    /\ hpc \in [Workers -> {"none", "spin", "load", "fetch", "rotate", "ready"}]
    /\ hpmem \in [Workers -> L1Ids \cup {None}]
    /\ jupper \in [Jobs -> L1Ids \cup {L2, None}]
    /\ cpc \in [Compactors -> {"idle", "mark", "rotate"}]
    /\ JM!JMTypeOK

(* The tables of the levels in the order brdb::get searches them: the L0  *)
(* chain (read_from_pmem_level_casc(0)), level 1's current table and then *)
(* its immutables (read_from_pmem_level(1)), the last level's table.      *)
SearchOrder ==
    [i \in 1..Len(NS0!Chain(l0)) |-> pdata[NS0!Chain(l0)[i]]]
    \o <<l1data[l1cur]>>
    \o [i \in 1..Len(NS1!Chain(l1imms)) |-> l1data[NS1!Chain(l1imms)[i]]]
    \o <<l2data>>

(* The newest version of k held by any table a get can reach.             *)
Reachable(k) == Max({SearchOrder[i][k] : i \in 1..Len(SearchOrder)})

(* The version the search returns: the first table that holds k.         *)
LevelRead(k) ==
    LET hits == SelectSeq(SearchOrder, LAMBDA d : d[k] # 0)
    IN IF hits = <<>> THEN 0 ELSE Head(hits)[k]

(* No flushed version is lost: whatever order the zipper and log-structured *)
(* jobs run in, and however level 1 rotates under them, every version a   *)
(* flush wrote stays in some table a get reaches (or a newer one does).   *)
NoLostVersion == \A t \in flushed, k \in Keys : pdata[t][k] =< Reachable(k)

(* A get of the levels returns the newest version they hold: the first    *)
(* table that has the key is the one with the highest tag for it.  This   *)
(* relies on L0 tables reaching level 1 in seq order.                     *)
LevelReadNewest == \A k \in Keys : LevelRead(k) = Reachable(k)

(* Every flushed L0 table is eventually merged and trimmed, and every     *)
(* level-1 table marked full is eventually merged into L2: the hooks'     *)
(* spins and get_writable_pmemtable's retries end.                        *)
PipelineDrains ==
    /\ \A t \in L0Ids : t \in flushed ~> t \notin ToSet(NS0!Chain(l0))
    /\ \A x \in L1Ids : l1state[x] = "full" ~> l1state[x] = "merged"

=============================================================================
