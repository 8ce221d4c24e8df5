\* Two workers, two root jobs each with a follow-up, a thread in wait() and
\* a client that may call JobManager::stop at any point (or never).  A stop
\* that hangs in wrapup_running_jobs (run joblife_shutdown) ends in a state
\* with no step, so deadlock is not checked here; a stuck state before stop
\* violates JobsComplete.
CONSTANTS
    f1 = f1
    f2 = f2
    z1 = z1
    z2 = z2
    w1 = w1
    w2 = w2
    NoJob = NoJob
    Jobs = {f1, f2, z1, z2}
    Roots = {f1, f2}
    Follow <- MCFollow
    JobLevel <- MCLevel
    JobSeq <- MCSeq
    Workers = {w1, w2}
SPECIFICATION Spec
INVARIANTS WaitSound WorkerLoad
PROPERTY JobsComplete
CHECK_DEADLOCK FALSE
