----------------------------- MODULE JobManager -----------------------------
(***************************************************************************)
(* The compaction scheduler of src/src/jobs: one scheduler thread running  *)
(* JobManager::job_process_loop and a fixed set of Worker threads running  *)
(* Worker::task_process_loop.  Every job of the engine has exactly one     *)
(* task (kCompactionTaskSize = 1), so a task is identified with its job.   *)
(*                                                                         *)
(* The actions below only constrain the scheduler's own variables.  A      *)
(* module that uses the scheduler (MemTier) conjoins to WorkerStart the    *)
(* job's before-hook, to WorkerFinish the task body and to SchedCallback   *)
(* the job's callback, which is how the three closures of a Job run on     *)
(* these threads.                                                          *)
(***************************************************************************)
EXTENDS Naturals, Sequences, FiniteSets, SequencesExt

CONSTANTS
    Jobs,       \* the jobs that can ever be enqueued
    JobLevel,   \* [Jobs -> Int], Job::level()
    JobSeq,     \* [Jobs -> Nat], Job::seq_num()
    Workers,    \* the Worker threads of the manager
    NoJob       \* a model value: no task (running_task_ expired)

VARIABLES
    jq,        \* jq_: jobs enqueued, not yet seen by the scheduler
    pq,        \* pq_: jobs seen by the scheduler, not yet dispatched
    running,   \* running_jobs_
    tcq,       \* tcq_: completed tasks, not yet seen by the scheduler
    wq,        \* Worker::q_ of every worker
    wrun,      \* Worker::running_task_ of every worker
    wtasks,    \* worker_tasks_: tasks dispatched to a worker and not yet collected
    towner,    \* task_to_worker_
    spc,       \* where the scheduler thread is in its loop
    finished,  \* comp_jobs of the current loop iteration
    cbdue      \* the jobs of comp_jobs whose callback has not run yet

jmVars == <<jq, pq, running, tcq, wq, wrun, wtasks, towner, spc, finished, cbdue>>

(* jobPriorityComparator: lower level first, then higher seq_num first.   *)
HigherPriority(a, b) ==
    \/ JobLevel[a] < JobLevel[b]
    \/ JobLevel[a] = JobLevel[b] /\ JobSeq[a] > JobSeq[b]

JMTypeOK ==
    /\ jq \in Seq(Jobs)
    /\ pq \subseteq Jobs
    /\ running \subseteq Jobs
    /\ tcq \in Seq(Jobs)
    /\ wq \in [Workers -> Seq(Jobs)]
    /\ wrun \in [Workers -> Jobs \cup {NoJob}]
    /\ wtasks \in [Workers -> Nat]
    /\ towner \in [Jobs -> Workers \cup {NoJob}]
    /\ spc \in {"wait", "callbacks"}
    /\ finished \subseteq Jobs
    /\ cbdue \subseteq finished

JMInit ==
    /\ jq = <<>>
    /\ pq = {}
    /\ running = {}
    /\ tcq = <<>>
    /\ wq = [w \in Workers |-> <<>>]
    /\ wrun = [w \in Workers |-> NoJob]
    /\ wtasks = [w \in Workers |-> 0]
    /\ towner = [j \in Jobs |-> NoJob]
    /\ spc = "wait"
    /\ finished = {}
    /\ cbdue = {}

(* JobManager::enqueue: append to jq_ under mu_ (stop_ is never set by   *)
(* the engine while it runs, so the early return is not taken).          *)
Enqueue(j) ==
    /\ jq' = Append(jq, j)
    /\ UNCHANGED <<pq, running, tcq, wq, wrun, wtasks, towner, spc, finished, cbdue>>

(* Variant of SchedCollect that decrements every worker's count for each *)
(* completed task, not only the count of the task's worker.              *)
SchedCollectAnyWorker ==
    /\ spc = "wait"
    /\ jq # <<>> \/ tcq # <<>>
    /\ LET done == ToSet(tcq)
       IN /\ pq' = pq \cup ToSet(jq)
          /\ jq' = <<>>
          /\ tcq' = <<>>
          /\ wtasks' = [w \in Workers |-> wtasks[w] - Cardinality(done)]
          /\ towner' = [j \in Jobs |-> IF j \in done THEN NoJob ELSE towner[j]]
          /\ finished' = done
          /\ cbdue' = done
    /\ spc' = "callbacks"
    /\ UNCHANGED <<running, wq, wrun>>

(* Variant of SchedCollect that erases the completed jobs from            *)
(* running_jobs_ when it collects them, before their callbacks run.       *)
SchedCollectEraseEarly ==
    /\ spc = "wait"
    /\ jq # <<>> \/ tcq # <<>>
    /\ LET done == ToSet(tcq)
       IN /\ pq' = pq \cup ToSet(jq)
          /\ jq' = <<>>
          /\ tcq' = <<>>
          /\ wtasks' = [w \in Workers |->
                          wtasks[w] - Cardinality({j \in done : towner[j] = w})]
          /\ towner' = [j \in Jobs |-> IF j \in done THEN NoJob ELSE towner[j]]
          /\ finished' = done
          /\ cbdue' = done
          /\ running' = running \ done
    /\ spc' = "callbacks"
    /\ UNCHANGED <<wq, wrun>>

(* Variant of SchedCollect whose wait predicate omits !jq_.empty(): only  *)
(* task completions wake the scheduler.                                   *)
SchedCollectNoJobWake ==
    /\ spc = "wait"
    /\ tcq # <<>>
    /\ LET done == ToSet(tcq)
       IN /\ pq' = pq \cup ToSet(jq)
          /\ jq' = <<>>
          /\ tcq' = <<>>
          /\ wtasks' = [w \in Workers |->
                          wtasks[w] - Cardinality({j \in done : towner[j] = w})]
          /\ towner' = [j \in Jobs |-> IF j \in done THEN NoJob ELSE towner[j]]
          /\ finished' = done
          /\ cbdue' = done
    /\ spc' = "callbacks"
    /\ UNCHANGED <<running, wq, wrun>>

(* First part of a loop iteration: wake when jq_ or tcq_ is non-empty,    *)
(* move jq_ into pq_, take tcq_, then (outside the lock) decrement         *)
(* worker_tasks_ of each completed task's worker and count completions:  *)
(* with one task per job every completed task completes its job.         *)
SchedCollect ==
    /\ spc = "wait"
    /\ jq # <<>> \/ tcq # <<>>
    /\ LET done == ToSet(tcq)
       IN /\ pq' = pq \cup ToSet(jq)
          /\ jq' = <<>>
          /\ tcq' = <<>>
          /\ wtasks' = [w \in Workers |->
                          wtasks[w] - Cardinality({j \in done : towner[j] = w})]
          /\ towner' = [j \in Jobs |-> IF j \in done THEN NoJob ELSE towner[j]]
          /\ finished' = done
          /\ cbdue' = done
    /\ spc' = "callbacks"
    /\ UNCHANGED <<running, wq, wrun>>

(* The loop runs j->callback() for every completed job, in the order of  *)
(* an unordered_set, outside the lock.  A callback may enqueue follow-up *)
(* jobs (the sequence follow) through JobManager::enqueue.               *)
SchedCallback(j, follow) ==
    /\ spc = "callbacks"
    /\ j \in cbdue
    /\ cbdue' = cbdue \ {j}
    /\ jq' = jq \o follow
    /\ UNCHANGED <<pq, running, tcq, wq, wrun, wtasks, towner, spc, finished>>

(* Rest of the iteration: erase completed jobs from running_jobs_, count *)
(* idle workers (worker_tasks_ == 0), sort pq_ by priority (std::sort,    *)
(* so equal-priority jobs come out in any order) and pop up to idle_cnt   *)
(* jobs.  worker_iter is never advanced, so every popped job goes to the  *)
(* first worker of the load-sorted vector, a least-loaded one.           *)
SchedDispatch ==
    /\ spc = "callbacks"
    /\ cbdue = {}
    /\ LET idle == Cardinality({w \in Workers : wtasks[w] = 0})
           k    == IF idle < Cardinality(pq) THEN idle ELSE Cardinality(pq)
       IN \E order \in UNION {SetToSeqs(S) : S \in {T \in SUBSET pq : Cardinality(T) = k}} :
          \E w0 \in {w \in Workers : \A v \in Workers : wtasks[w] =< wtasks[v]} :
            /\ IsSorted(order, LAMBDA a, b : ~HigherPriority(b, a))
            /\ \A a \in ToSet(order), b \in pq \ ToSet(order) : ~HigherPriority(b, a)
            /\ pq' = pq \ ToSet(order)
            /\ running' = (running \ finished) \cup ToSet(order)
            /\ wq' = [wq EXCEPT ![w0] = @ \o order]
            /\ wtasks' = [wtasks EXCEPT ![w0] = @ + k]
            /\ towner' = [j \in Jobs |-> IF j \in ToSet(order) THEN w0 ELSE towner[j]]
    /\ finished' = {}
    /\ spc' = "wait"
    /\ UNCHANGED <<jq, tcq, wrun, cbdue>>

(* Worker::task_process_loop: pop the front task and make it the running *)
(* task; the job's before() runs next, in the same step (the user of the  *)
(* module conjoins the hook, which may block this step).                 *)
WorkerStart(w) ==
    /\ wrun[w] = NoJob
    /\ wq[w] # <<>>
    /\ wrun' = [wrun EXCEPT ![w] = Head(wq[w])]
    /\ wq' = [wq EXCEPT ![w] = Tail(@)]
    /\ UNCHANGED <<jq, pq, running, tcq, wtasks, towner, spc, finished, cbdue>>

(* JobManager::complete_task: push the task on tcq_ under mu_.           *)
CompleteTask(t) == tcq' = Append(tcq, t)

(* task->run(), reset running_task_, JobManager::complete_task.          *)
WorkerFinish(w) ==
    /\ wrun[w] # NoJob
    /\ CompleteTask(wrun[w])
    /\ wrun' = [wrun EXCEPT ![w] = NoJob]
    /\ UNCHANGED <<jq, pq, running, wq, wtasks, towner, spc, finished, cbdue>>

(* JobManager::steal_pending_jobs: swap pq_ with an empty deque under mu_ *)
(* and hand its jobs to the caller.  jq_, running_jobs_ and the workers'  *)
(* queues are left to this manager.                                       *)
StealPending ==
    /\ pq' = {}
    /\ UNCHANGED <<jq, running, tcq, wq, wrun, wtasks, towner, spc, finished, cbdue>>

(* Variant of Quiescent that does not wait for running_jobs_.            *)
QuiescentNoRunning == jq = <<>> /\ pq = {}

(* JobManager::wait's predicate: nothing enqueued, pending or running.    *)
Quiescent == jq = <<>> /\ pq = {} /\ running = {}

=============================================================================
