---------------------------- MODULE JobLifecycle ----------------------------
(***************************************************************************)
(* One JobManager over its whole life: jobs submitted by the engine and   *)
(* by callbacks, a thread blocked in JobManager::wait (brdb::              *)
(* wait_compaction and stabilize), and the shutdown of ~brdb:             *)
(* JobManager::stop, which stops every Worker and then sets stop_, the   *)
(* scheduler's break out of job_process_loop, wrapup_running_jobs and     *)
(* stop_workers, and each Worker's graceful exit.                          *)
(*                                                                         *)
(* The running phase is JobManager.tla, instantiated; this module adds   *)
(* the stop flags and the threads around it.  A job stands for any       *)
(* compaction job; Follow gives the job its callback enqueues (a flush   *)
(* enqueues the zipper job of its L0 table), and Roots are the jobs the  *)
(* write path and the periodic thread submit.                            *)
(***************************************************************************)
EXTENDS Naturals, Sequences, FiniteSets, SequencesExt

CONSTANTS
    Jobs, Roots,
    Follow,      \* [Jobs -> Jobs \cup {NoJob}]
    JobLevel, JobSeq,
    Workers,
    NoJob

VARIABLES
    jq, pq, running, tcq, wq, wrun, wtasks, towner, spc, finished, cbdue,
    mstop,       \* JobManager::stop_
    wstop,       \* Worker::is_stop_ of every worker
    wdead,       \* the workers whose task_process_loop has returned
    lpc,         \* the scheduler thread: "loop", "wrapup", "collect", "done"
    stpc,        \* the thread in JobManager::stop: the next worker's index in WOrder
    pending,     \* Roots not yet submitted
    enq,         \* history: jobs accepted by enqueue
    cbdone,      \* history: jobs whose callback has run
    wpc,         \* the thread in JobManager::wait: "idle", "waiting", "returned"
    wsnap        \* enq when wait returned

jmVars == <<jq, pq, running, tcq, wq, wrun, wtasks, towner, spc, finished, cbdue>>
lifeVars == <<mstop, wstop, wdead, lpc, stpc>>
vars == <<jmVars, lifeVars, pending, enq, cbdone, wpc, wsnap>>

JM == INSTANCE JobManager

WOrder == SetToSeq(Workers)    \* the order of workers_
StopSetFlag == Len(WOrder) + 1  \* stpc once every worker is stopped
StopReturned == Len(WOrder) + 2 \* stpc once stop() has returned

Init ==
    /\ JM!JMInit
    /\ mstop = FALSE
    /\ wstop = [w \in Workers |-> FALSE] /\ wdead = [w \in Workers |-> FALSE]
    /\ lpc = "loop" /\ stpc = 1
    /\ pending = Roots /\ enq = {} /\ cbdone = {}
    /\ wpc = "idle" /\ wsnap = {}

-----------------------------------------------------------------------------
(* JobManager::enqueue: under mu_, `if (stop_) return false`.             *)
Submit(j) ==
    /\ j \in pending
    /\ pending' = pending \ {j}
    /\ IF mstop
       THEN UNCHANGED <<jmVars, enq>>
       ELSE JM!Enqueue(j) /\ enq' = enq \cup {j}
    /\ UNCHANGED <<lifeVars, cbdone, wpc, wsnap>>

(* The cv_ wait of job_process_loop returns once stop_ is set or a queue *)
(* is non-empty; the loop body runs only while stop_ is false.           *)
SchedCollect ==
    /\ lpc = "loop" /\ ~mstop
    /\ JM!SchedCollect
    /\ UNCHANGED <<lifeVars, pending, enq, cbdone, wpc, wsnap>>

(* j->callback(); its follow-up goes through enqueue, which drops it     *)
(* once stop_ is set.                                                    *)
SchedCallback(j) ==
    /\ lpc = "loop"
    /\ LET f == IF Follow[j] # NoJob /\ ~mstop THEN <<Follow[j]>> ELSE <<>>
       IN /\ JM!SchedCallback(j, f)
          /\ enq' = enq \cup ToSet(f)
    /\ cbdone' = cbdone \cup {j}
    /\ UNCHANGED <<lifeVars, pending, wpc, wsnap>>

SchedDispatch ==
    /\ lpc = "loop"
    /\ JM!SchedDispatch
    /\ UNCHANGED <<lifeVars, pending, enq, cbdone, wpc, wsnap>>

(* `if (stop_) break;` then wrapup_running_jobs moves jq_ into pq_        *)
(* (without the lock) and returns at once if no job is running.          *)
SchedBreak ==
    /\ lpc = "loop" /\ spc = "wait" /\ mstop
    /\ pq' = pq \cup ToSet(jq)
    /\ jq' = <<>>
    /\ lpc' = IF running = {} THEN "wrapup" ELSE "collect"
    /\ UNCHANGED <<running, tcq, wq, wrun, wtasks, towner, spc, finished, cbdue,
                   mstop, wstop, wdead, stpc, pending, enq, cbdone, wpc, wsnap>>

(* The wrapup loop: wait for tcq_, take it, decrement the workers' task  *)
(* counts, erase the completed jobs from running_jobs_ (their callbacks  *)
(* are not run), and leave once running_jobs_ is empty.                  *)
WrapCollect ==
    /\ lpc = "collect" /\ tcq # <<>>
    /\ LET done == ToSet(tcq)
       IN /\ tcq' = <<>>
          /\ wtasks' = [w \in Workers |->
                          wtasks[w] - Cardinality({j \in done : towner[j] = w})]
          /\ towner' = [j \in Jobs |-> IF j \in done THEN NoJob ELSE towner[j]]
          /\ running' = running \ done
          /\ lpc' = IF running \ done = {} THEN "wrapup" ELSE "collect"
    /\ UNCHANGED <<jq, pq, wq, wrun, spc, finished, cbdue, mstop, wstop, wdead, stpc,
                   pending, enq, cbdone, wpc, wsnap>>

(* stop_workers(): Worker::stop() on every worker; the thread returns.   *)
StopWorkers ==
    /\ lpc = "wrapup"
    /\ wstop' = [w \in Workers |-> TRUE]
    /\ lpc' = "done"
    /\ UNCHANGED <<jmVars, mstop, wdead, stpc, pending, enq, cbdone, wpc, wsnap>>

-----------------------------------------------------------------------------
(* Worker::task_process_loop keeps running queued tasks after is_stop_    *)
(* is set (force_stop_ is false) and returns once its queue is empty,     *)
(* after swapping q_ with an empty queue.                                *)
WorkerStart(w) ==
    /\ ~wdead[w]
    /\ JM!WorkerStart(w)
    /\ UNCHANGED <<lifeVars, pending, enq, cbdone, wpc, wsnap>>

WorkerFinish(w) ==
    /\ JM!WorkerFinish(w)
    /\ UNCHANGED <<lifeVars, pending, enq, cbdone, wpc, wsnap>>

WorkerExit(w) ==
    /\ ~wdead[w] /\ wstop[w] /\ wrun[w] = NoJob /\ wq[w] = <<>>
    /\ wdead' = [wdead EXCEPT ![w] = TRUE]
    /\ UNCHANGED <<jmVars, mstop, wstop, lpc, stpc, pending, enq, cbdone, wpc, wsnap>>

-----------------------------------------------------------------------------
(* JobManager::stop: w->stop() for each worker in order, then stop_ =    *)
(* true under mu_ and cv_.notify_all().  The client thread that deletes   *)
(* the database is the one that calls wait (stabilize), so stop never    *)
(* begins while that thread is in wait.                                   *)
StopWorker ==
    /\ stpc \in 1..Len(WOrder) /\ wpc # "waiting"
    /\ wstop' = [wstop EXCEPT ![WOrder[stpc]] = TRUE]
    /\ stpc' = stpc + 1
    /\ UNCHANGED <<jmVars, mstop, wdead, lpc, pending, enq, cbdone, wpc, wsnap>>

StopFlag ==
    /\ stpc = StopSetFlag
    /\ mstop' = TRUE
    /\ stpc' = StopReturned
    /\ UNCHANGED <<jmVars, wstop, wdead, lpc, pending, enq, cbdone, wpc, wsnap>>

-----------------------------------------------------------------------------
(* JobManager::wait: wait_cv_ until jq_, pq_ and running_jobs_ are empty; *)
(* the client thread calls it before it begins ~brdb, if at all.          *)
WaitStart ==
    /\ wpc = "idle" /\ stpc = 1
    /\ wpc' = "waiting"
    /\ UNCHANGED <<jmVars, lifeVars, pending, enq, cbdone, wsnap>>

WaitReturn ==
    /\ wpc = "waiting" /\ JM!Quiescent
    /\ wpc' = "returned"
    /\ wsnap' = enq
    /\ UNCHANGED <<jmVars, lifeVars, pending, enq, cbdone>>

-----------------------------------------------------------------------------
Terminated ==
    /\ pending = {} /\ tcq = <<>> /\ wpc # "waiting"
    /\ \A w \in Workers : wrun[w] = NoJob /\ wq[w] = <<>>
    /\ \/ stpc = 1 /\ JM!Quiescent /\ spc = "wait"
       \/ lpc = "done" /\ stpc = StopReturned /\ \A w \in Workers : wdead[w]

SchedStep ==
    \/ SchedCollect \/ \E j \in Jobs : SchedCallback(j) \/ SchedDispatch
    \/ SchedBreak \/ WrapCollect \/ StopWorkers

WorkerStep(w) == WorkerStart(w) \/ WorkerFinish(w) \/ WorkerExit(w)

Next ==
    \/ \E j \in Jobs : Submit(j)
    \/ SchedStep
    \/ \E w \in Workers : WorkerStep(w)
    \/ StopWorker \/ StopFlag
    \/ WaitStart \/ WaitReturn
    \/ Terminated /\ UNCHANGED vars

(* The scheduler, the workers, the thread in stop() and a thread blocked  *)
(* in wait() all run when they can; the engine eventually submits every  *)
(* root job.  Nothing forces a thread to call wait(), nor the client to   *)
(* delete the database: stop() need not begin, but once it has begun its *)
(* thread runs to the end.                                                *)
Fairness ==
    /\ WF_vars(\E j \in Jobs : Submit(j))
    /\ WF_vars(SchedStep)
    /\ \A w \in Workers : WF_vars(WorkerStep(w))
    /\ WF_vars((StopWorker /\ stpc > 1) \/ StopFlag)
    /\ WF_vars(WaitReturn)

Spec == Init /\ [][Next]_vars /\ Fairness

-----------------------------------------------------------------------------
TypeOK ==
    /\ JM!JMTypeOK
    /\ lpc \in {"loop", "wrapup", "collect", "done"}
    /\ stpc \in 1..StopReturned
    /\ enq \subseteq Jobs /\ cbdone \subseteq enq
    /\ wpc \in {"idle", "waiting", "returned"}

(* JobManager::wait returns only when all the work submitted before it   *)
(* returned is done, follow-up jobs included: every job accepted by      *)
(* enqueue has had its callback run.  This relies on job_process_loop    *)
(* running the callbacks, which enqueue the follow-ups, before it erases *)
(* the jobs from running_jobs_.                                           *)
WaitSound == wpc = "returned" => wsnap \subseteq cbdone

(* As long as JobManager::stop is not called, every accepted job has its *)
(* callback run, though every job popped in one iteration goes to one    *)
(* worker (worker_iter), and a thread blocked in wait() returns.         *)
JobsComplete ==
    [](stpc = 1) =>
       /\ \A j \in Jobs : j \in enq ~> j \in cbdone
       /\ wpc = "waiting" ~> wpc = "returned"

(* worker_tasks_ stays equal to the tasks task_to_worker_ assigns to each *)
(* worker, and each such task is in the worker's queue, running on it, or *)
(* in tcq_: the scheduler's idle count, and the wrapup loop that waits    *)
(* for them, rest on this, through stop() and wrapup_running_jobs.        *)
WorkerLoad ==
    \A w \in Workers :
       /\ wtasks[w] = Cardinality({j \in Jobs : towner[j] = w})
       /\ \A j \in Jobs : towner[j] = w =>
             j \in ToSet(wq[w]) \/ wrun[w] = j \/ j \in ToSet(tcq)

(* Once JobManager::stop has returned, the scheduler thread finishes      *)
(* wrapup_running_jobs and every worker thread returns, so the joins of   *)
(* ~brdb end: stop lets in-flight tasks finish.                           *)
ShutdownCompletes ==
    stpc = StopReturned ~> (lpc = "done" /\ \A w \in Workers : wdead[w])

=============================================================================
