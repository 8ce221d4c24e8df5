\* ~brdb stops the manager while jobs run. The hang in wrapup_running_jobs is a state with no step, so deadlock is not reported separately from the property.
CONSTANTS
    f1 = f1
    f2 = f2
    z1 = z1
    z2 = z2
    w1 = w1
    w2 = w2
    NoJob = NoJob
    Jobs = {f1, f2, z1, z2}
    Roots = {f1, f2}
    Follow <- MCFollow
    JobLevel <- MCLevel
    JobSeq <- MCSeq
    Workers = {w1, w2}
SPECIFICATION Spec
PROPERTY ShutdownCompletes
CHECK_DEADLOCK FALSE
